---------------------------- MODULE Spec2Model ----------------------------
(***************************************************************************)
(* Claudian: path containment (utils), the PreToolUse security hooks       *)
(* (SecurityHooks) and the reduced-capability hooks of                     *)
(* InstructionRefineService.                                               *)
(*                                                                         *)
(* Strings are sequences of one-character strings, so that startsWith,     *)
(* split and template concatenation are computed character by character.   *)
(***************************************************************************)
EXTENDS Integers, Sequences, FiniteSets, TLC

VARIABLES
  fs,             \* the file system the fs module sees: [dirs, files, links]
  vaultPath,      \* getVaultPath(app): the root
  candidatePath,  \* last argument of isPathWithinVault
  withinResult,   \* last result of isPathWithinVault
  pathChecked,    \* whether isPathWithinVault has been applied
  exportPaths,    \* the allowed export paths (write-only, outside the root)
  blockedCommands,\* BlocklistContext.blockedCommands
  enableBlocklist,\* BlocklistContext.enableBlocklist
  hasOnEditBlocked, \* whether VaultRestrictionContext.onEditBlocked is registered
  phase,          \* "idle", "pending" (a tool call awaits its hooks), "decided"
  call,           \* the hook input: [tool_name, tool_input]
  hook,           \* the hook (or hook chain) that handled the call
  outcome,        \* what the hook returned, or that it threw
  trace,          \* the observable events of the invocation, in order
  sessionId,      \* InstructionRefineService.sessionId ("" is null)
  abortController,\* InstructionRefineService.abortController: 0 is null, t is
                  \* the AbortController created by call t
  aborted,        \* the AbortControllers whose signal is aborted
  resolvedClaudePath, \* whether the cached executable path is set
  cliInstalled,   \* whether findClaudeCLI() finds the executable
  turns,          \* the calls of refineInstruction / continueConversation:
                  \* position, local variables, options and result of each
  delivered,      \* history: the messages the runtime has delivered so far
  lastInit,       \* history: session id of the last SystemInit consumed
                  \* since the last reset or new-conversation start
  parseText,      \* the responseText handed to parseResponse
  parsed,         \* what parseResponse returned for it (NoResult before)
  sdkMessages,    \* the SDK messages handed to transformSDKMessage, in order
  chunks,         \* what transformSDKMessage yielded for each of them
  now             \* Date.now(), the clock of the host

pathVars == <<candidatePath, withinResult, pathChecked>>
envVars == <<fs, vaultPath>>
ctxVars == <<exportPaths, blockedCommands, enableBlocklist, hasOnEditBlocked>>
hookVars == <<phase, call, hook, outcome, trace>>
sessionVars == <<sessionId, abortController, aborted, resolvedClaudePath,
                 cliInstalled, turns, delivered, lastInit>>
parseVars == <<parseText, parsed>>
transformVars == <<sdkMessages, chunks, now>>
vars == <<fs, vaultPath, candidatePath, withinResult, pathChecked,
          exportPaths, blockedCommands, enableBlocklist, hasOnEditBlocked,
          phase, call, hook, outcome, trace,
          sessionId, abortController, aborted, resolvedClaudePath,
          cliInstalled, turns, delivered, lastInit,
          parseText, parsed, sdkMessages, chunks, now>>

(***************************************************************************)
(* Bounds                                                                  *)
(***************************************************************************)
MaxPathLen == 4
MaxTokens == 3
\* calls of refineInstruction / continueConversation in one behaviour
MaxTurns == 2
\* messages the runtime delivers in one behaviour, over all calls
MaxMessages == 2

(***************************************************************************)
(* Characters and strings                                                  *)
(***************************************************************************)
sep == "/"

PathAlphabet == {"/", ".", "v", "x", "~"}

RECURSIVE StringsUpTo(_)
StringsUpTo(n) ==
  IF n = 0 THEN {<<>>}
  ELSE LET shorter == StringsUpTo(n - 1)
       IN shorter \cup {Append(s, c) : s \in {t \in shorter : Len(t) = n - 1}, c \in PathAlphabet}

startsWith(s, prefix) ==
  /\ Len(prefix) <= Len(s)
  /\ SubSeq(s, 1, Len(prefix)) = prefix

slice(s, from) == SubSeq(s, from + 1, Len(s))

RECURSIVE SplitAcc(_, _, _, _)
SplitAcc(s, ch, cur, acc) ==
  IF s = <<>> THEN Append(acc, cur)
  ELSE IF Head(s) = ch THEN SplitAcc(Tail(s), ch, <<>>, Append(acc, cur))
  ELSE SplitAcc(Tail(s), ch, Append(cur, Head(s)), acc)

\* s.split(ch)
SplitOn(s, ch) == SplitAcc(s, ch, <<>>, <<>>)

\* s.split('/')
Split(s) == SplitOn(s, sep)

\* s.includes(part)
includes(s, part) ==
  \E i \in 1..(Len(s) - Len(part) + 1) : SubSeq(s, i, i + Len(part) - 1) = part

RECURSIVE JoinSegs(_)
JoinSegs(segs) ==
  IF segs = <<>> THEN <<>>
  ELSE IF Len(segs) = 1 THEN Head(segs)
  ELSE Head(segs) \o <<sep>> \o JoinSegs(Tail(segs))

DotSeg == <<".">>
DotDotSeg == <<".", ".">>

(***************************************************************************)
(* Node path module (posix)                                                *)
(***************************************************************************)
isAbsolute(p) == Len(p) > 0 /\ Head(p) = sep

dropLast(stack) == IF stack = <<>> THEN <<>> ELSE SubSeq(stack, 1, Len(stack) - 1)

\* normalizeString for an absolute path: '.' and empty segments are dropped,
\* '..' removes the previous segment and is ignored at the root.
RECURSIVE NormAcc(_, _)
NormAcc(segs, stack) ==
  IF segs = <<>> THEN stack
  ELSE LET c == Head(segs)
       IN IF c = <<>> \/ c = DotSeg THEN NormAcc(Tail(segs), stack)
          ELSE IF c = DotDotSeg THEN NormAcc(Tail(segs), dropLast(stack))
          ELSE NormAcc(Tail(segs), Append(stack, c))

normalizeSegs(p) == NormAcc(Split(p), <<>>)

\* '/' + the segments joined by '/'
absOf(segs) == <<sep>> \o JoinSegs(segs)

\* process.cwd(): only consulted for a path that is not absolute
cwd == <<"/", "x">>

\* os.homedir()
homedir == <<"/", "x">>

\* path.resolve(p)
pathResolve(p) ==
  IF isAbsolute(p) THEN absOf(normalizeSegs(p))
  ELSE absOf(normalizeSegs(cwd \o <<sep>> \o p))

\* path.resolve(base, p): right to left until an absolute path is built
pathResolve2(base, p) ==
  IF isAbsolute(p) THEN pathResolve(p)
  ELSE IF p = <<>> THEN pathResolve(base)
  ELSE pathResolve(base \o <<sep>> \o p)

\* path.join(base, p) for an absolute base: normalize keeps a trailing separator
pathJoin(base, p) ==
  LET joined == IF p = <<>> THEN base ELSE base \o <<sep>> \o p
      segs == normalizeSegs(joined)
      trailing == Len(joined) > 0 /\ joined[Len(joined)] = sep
  IN IF segs # <<>> /\ trailing THEN absOf(segs) \o <<sep>> ELSE absOf(segs)

(***************************************************************************)
(* The file system: fs.dirs and fs.files are sets of segment sequences,    *)
(* fs.links is a set of symbolic links [from |-> segments, to |-> segments]*)
(***************************************************************************)
isLink(p) == \E l \in fs.links : l.from = p
linkTarget(p) == (CHOOSE l \in fs.links : l.from = p).to
exists(p) == p \in fs.dirs \/ p \in fs.files

MaxLinkDepth == 2
MaxTextLen == 4
MaxEvents == 2
MaxClock == 2

\* realpath(3): walks the components from the root, follows symbolic links,
\* resolves '..' physically, and fails on a missing component (ENOENT), on a
\* component below a regular file (ENOTDIR) and on too many links (ELOOP).
RECURSIVE RealWalk(_, _, _)
RealWalk(cur, rest, fuel) ==
  IF rest = <<>> THEN [ok |-> TRUE, segs |-> cur]
  ELSE IF cur \in fs.files THEN [ok |-> FALSE, segs |-> cur]
  ELSE LET c == Head(rest)
           p == Append(cur, c)
       IN IF c = <<>> \/ c = DotSeg THEN RealWalk(cur, Tail(rest), fuel)
          ELSE IF c = DotDotSeg THEN RealWalk(dropLast(cur), Tail(rest), fuel)
          ELSE IF isLink(p)
            THEN IF fuel = 0 THEN [ok |-> FALSE, segs |-> cur]
                 ELSE RealWalk(<<>>, linkTarget(p) \o Tail(rest), fuel - 1)
          ELSE IF exists(p) THEN RealWalk(p, Tail(rest), fuel)
          ELSE [ok |-> FALSE, segs |-> cur]

\* fs.realpathSync.native(p): [ok |-> FALSE] stands for the thrown error
realpathSync(p) ==
  LET abs == IF isAbsolute(p) THEN p ELSE cwd \o <<sep>> \o p
      r == IF p = <<>> THEN [ok |-> FALSE, segs |-> <<>>]
           ELSE RealWalk(<<>>, Split(abs), MaxLinkDepth)
  IN [ok |-> r.ok, path |-> absOf(r.segs)]

(***************************************************************************)
(* utils: resolveRealPath, isPathWithinVault                               *)
(***************************************************************************)
resolveRealPath(p) ==
  LET r == realpathSync(p)
  IN IF r.ok THEN r.path ELSE pathResolve(p)

expandHome(candidate) ==
  IF startsWith(candidate, <<"~", sep>>)
    THEN pathJoin(homedir, slice(candidate, 2))
    ELSE candidate

absCandidateOf(candidate, vault) ==
  LET expandedPath == expandHome(candidate)
  IN IF isAbsolute(expandedPath) THEN expandedPath
     ELSE pathResolve2(vault, expandedPath)

isPathWithinVault(candidate, vault) ==
  LET vaultReal == resolveRealPath(vault)
      resolvedCandidate == resolveRealPath(absCandidateOf(candidate, vault))
  IN \/ resolvedCandidate = vaultReal
     \/ startsWith(resolvedCandidate, vaultReal \o <<sep>>)

(***************************************************************************)
(* Environments                                                            *)
(***************************************************************************)
V == <<"v">>
X == <<"x">>
VX == <<"v", "x">>

Link(from, to) == [from |-> from, to |-> to]

\* plain tree: /v/x is a regular file
FsPlain == [dirs |-> {<<>>, <<V>>, <<X>>, <<VX>>}, files |-> {<<V, X>>}, links |-> {}]
\* /v/x is a symbolic link to the directory /x
FsLinkOut == [dirs |-> {<<>>, <<V>>, <<X>>}, files |-> {<<X, X>>}, links |-> {Link(<<V, X>>, <<X>>)}]
\* the root /v itself is a symbolic link to /x
FsLinkRoot == [dirs |-> {<<>>, <<X>>, <<X, V>>}, files |-> {}, links |-> {Link(<<V>>, <<X>>)}]
\* /x/v is a symbolic link into the root /v
FsLinkIn == [dirs |-> {<<>>, <<V>>, <<X>>, <<V, V>>}, files |-> {}, links |-> {Link(<<X, V>>, <<V>>)}]

FileSystems == {FsPlain, FsLinkOut, FsLinkRoot, FsLinkIn}

Roots == {<<"/">>, <<"/", "v">>, <<"/", "x">>, <<"/", "v", "x">>}

CandidatePaths == StringsUpTo(MaxPathLen)

(***************************************************************************)
(* Hook inputs and results                                                 *)
(***************************************************************************)
\* a tool_input value: a string, undefined (key missing), or a truthy value
\* that is not a string (a number, an object)
Str(s) == [kind |-> "string", s |-> s]
NoVal == [kind |-> "missing", s |-> <<>>]
Other == [kind |-> "other", s |-> <<>>]
EmptyStr == Str(<<>>)

\* JavaScript truthiness and a || b
truthy(v) == v.kind = "other" \/ (v.kind = "string" /\ v.s # <<>>)
Or(a, b) == IF truthy(a) THEN a ELSE b

ToolInput(fp, pa, pt, cmd) ==
  [file_path |-> fp, path |-> pa, pattern |-> pt, command |-> cmd]
HookInput(name, input) == [tool_name |-> name, tool_input |-> input]

NoCall == HookInput("", ToolInput(NoVal, NoVal, NoVal, NoVal))

\* pieces of a template string: literal text, an interpolated string, an
\* interpolated tool name
Lit(t) == [kind |-> "lit", text |-> t, chars |-> <<>>]
Val(chars) == [kind |-> "str", text |-> "", chars |-> chars]
Name(n) == [kind |-> "name", text |-> n, chars |-> <<>>]

\* { continue: true }
Continue == [threw |-> FALSE, continue |-> TRUE, permissionDecision |-> "none", reason |-> <<>>]
\* { continue: false, hookSpecificOutput: { permissionDecision: 'deny', permissionDecisionReason } }
Deny(reason) == [threw |-> FALSE, continue |-> FALSE, permissionDecision |-> "deny", reason |-> reason]
\* the hook's promise rejects (a TypeError was thrown)
Threw == [threw |-> TRUE, continue |-> FALSE, permissionDecision |-> "none", reason |-> <<>>]
NoOutcome == [threw |-> FALSE, continue |-> FALSE, permissionDecision |-> "none", reason |-> <<>>]

\* trace events
Ev(kind, name, input) == [ev |-> kind, tool_name |-> name, tool_input |-> input]

(***************************************************************************)
(* InstructionRefineService: results, runtime messages, response parsing   *)
(* Response text is a sequence of pieces: the two tags, a letter and a     *)
(* white-space character.                                                  *)
(***************************************************************************)
NoSession == ""
OpenTag == "<instruction>"
CloseTag == "</instruction>"
Space == " "

\* { success: true, refinedInstruction }
Success(payload) ==
  [success |-> TRUE, has |-> "refinedInstruction", text |-> payload, error |-> <<>>]
\* { success: true, clarification }
Clarification(text) ==
  [success |-> TRUE, has |-> "clarification", text |-> text, error |-> <<>>]
\* { success: false, error }
Failure(error) ==
  [success |-> FALSE, has |-> "error", text |-> <<>>, error |-> error]
\* the promise of the call is still pending
NoResult == [success |-> FALSE, has |-> "none", text |-> <<>>, error |-> <<>>]

NoVaultError == <<Lit("Could not determine vault path")>>
NoCliError == <<Lit("Claude CLI not found"), Lit(". Please install Claude Code CLI.")>>
NoConversationError == <<Lit("No active conversation"), Lit(" to continue")>>
CancelledError == <<Lit("Cancelled")>>
EmptyResponseError == <<Lit("Empty response")>>
UnknownError == <<Lit("Unknown error")>>

\* String.prototype.trim on a sequence of pieces
RECURSIVE trimStart(_)
trimStart(t) ==
  IF t # <<>> /\ Head(t) = Space THEN trimStart(Tail(t)) ELSE t

RECURSIVE trimEnd(_)
trimEnd(t) ==
  IF t # <<>> /\ t[Len(t)] = Space THEN trimEnd(SubSeq(t, 1, Len(t) - 1)) ELSE t

trim(t) == trimEnd(trimStart(t))

\* positions of a piece in a text, after position from
positionsAfter(t, piece, from) == {i \in 1..Len(t) : i > from /\ t[i] = piece}

Least(S) == CHOOSE i \in S : \A j \in S : i <= j

\* faulty variant: the match starts at the last opening tag that a closing
\* tag follows
instructionMatch_LastOpen(t) ==
  LET opens == {i \in positionsAfter(t, OpenTag, 0) :
                  positionsAfter(t, CloseTag, i) # {}}
  IN IF opens = {} THEN [matched |-> FALSE, group |-> <<>>]
     ELSE LET i == CHOOSE k \in opens : \A l \in opens : l <= k
              j == Least(positionsAfter(t, CloseTag, i))
          IN [matched |-> TRUE, group |-> SubSeq(t, i + 1, j - 1)]

\* faulty variant: a greedy group, up to the last closing tag
instructionMatch_Greedy(t) ==
  LET opens == {i \in positionsAfter(t, OpenTag, 0) :
                  positionsAfter(t, CloseTag, i) # {}}
  IN IF opens = {} THEN [matched |-> FALSE, group |-> <<>>]
     ELSE LET i == Least(opens)
              j == Least({k \in positionsAfter(t, CloseTag, i) :
                            positionsAfter(t, CloseTag, k) = {}})
          IN [matched |-> TRUE, group |-> SubSeq(t, i + 1, j - 1)]

\* responseText.match(/<instruction>([\s\S]*?)<\/instruction>/): the leftmost
\* opening tag that a closing tag follows, up to the first closing tag after
\* it; FALSE-tagged when there is no match
instructionMatch(t) ==
  LET opens == {i \in positionsAfter(t, OpenTag, 0) :
                  positionsAfter(t, CloseTag, i) # {}}
  IN IF opens = {} THEN [matched |-> FALSE, group |-> <<>>]
     ELSE LET i == Least(opens)
              j == Least(positionsAfter(t, CloseTag, i))
          IN [matched |-> TRUE, group |-> SubSeq(t, i + 1, j - 1)]

parseResponse(responseText) ==
  LET m == instructionMatch(responseText)
      trimmed == trim(responseText)
  IN IF m.matched THEN Success(trim(m.group))
     ELSE IF trimmed # <<>> THEN Clarification(trimmed)
     ELSE Failure(EmptyResponseError)

\* a message of the runtime stream; text is the join of its text blocks
Message(type, subtype, id, text) ==
  [type |-> type, subtype |-> subtype, session_id |-> id, text |-> text,
   error |-> ""]

\* { type: 'error', error }: an Error event of the runtime
ErrorEvent(error) ==
  [Message("error", "", NoSession, <<>>) EXCEPT !.error = error]

extractTextFromMessage(message) ==
  IF message.type # "assistant" THEN <<>> ELSE message.text

\* faulty variant: any system message sets the session id
isSessionInit_AnySystem(message) ==
  message.type = "system" /\ message.session_id # NoSession

isSessionInit(message) ==
  /\ message.type = "system"
  /\ message.subtype = "init"
  /\ message.session_id # NoSession

\* a value thrown by the runtime: an Error with a message, or something else
ThrownError(msg) == [isError |-> TRUE, message |-> msg]
ThrownOther == [isError |-> FALSE, message |-> ""]

\* faulty variant: the message of the thrown error is dropped
errorMessage_AlwaysUnknown(error) == UnknownError

errorMessage(error) ==
  IF error.isError THEN <<Lit(error.message)>> ELSE UnknownError

\* no runtime call was made
NoOptions ==
  [cwd |-> <<>>, abortController |-> 0, allowedTools |-> {},
   permissionMode |-> "", preToolUse |-> <<>>, resume |-> NoSession]

\* one call of refineInstruction / continueConversation
NoTurn ==
  [status |-> "none", kind |-> "", onProgress |-> FALSE, queries |-> 0,
   options |-> NoOptions, responseText |-> <<>>,
   progress |-> <<>>, interrupts |-> 0, result |-> NoResult]

SessionUnused ==
  /\ sessionId = NoSession
  /\ abortController = 0
  /\ aborted = {}
  /\ resolvedClaudePath = FALSE
  /\ cliInstalled = FALSE
  /\ turns = [t \in 1..MaxTurns |-> NoTurn]
  /\ delivered = 0
  /\ lastInit = NoSession

ParseUnused == parseText = <<>> /\ parsed = NoResult

TransformUnused == sdkMessages = <<>> /\ chunks = <<>> /\ now = 0

(***************************************************************************)
(* Path containment as a state machine: the environment is drawn by Init,  *)
(* CheckPath applies isPathWithinVault to one candidate.                   *)
(***************************************************************************)
InitPath ==
  /\ fs \in FileSystems
  /\ vaultPath \in Roots
  /\ candidatePath = <<>>
  /\ withinResult = FALSE
  /\ pathChecked = FALSE
  /\ exportPaths = {}
  /\ blockedCommands = <<>>
  /\ enableBlocklist = FALSE
  /\ hasOnEditBlocked = FALSE
  /\ phase = "idle"
  /\ call = NoCall
  /\ hook = "none"
  /\ outcome = NoOutcome
  /\ trace = <<>>
  /\ SessionUnused
  /\ ParseUnused
  /\ TransformUnused

CheckPath ==
  \E c \in CandidatePaths :
    /\ ~pathChecked
    /\ candidatePath' = c
    /\ withinResult' = isPathWithinVault(c, vaultPath)
    /\ pathChecked' = TRUE
    /\ UNCHANGED <<envVars, ctxVars, hookVars, sessionVars, parseVars, transformVars>>

NextPath == CheckPath

SpecPath == InitPath /\ [][NextPath]_vars

(***************************************************************************)
(* Reference notions the containment claims are stated against             *)
(***************************************************************************)
\* the path segments of a canonical path string
SegmentsOf(p) == SelectSeq(Split(p), LAMBDA seg : seg # <<>>)

\* b equals a or is a descendant of a, compared segment by segment
IsSegPrefix(a, b) == Len(a) <= Len(b) /\ SubSeq(b, 1, Len(a)) = a

canonicalCandidate(candidate, vault) == resolveRealPath(absCandidateOf(candidate, vault))
canonicalRoot(vault) == resolveRealPath(vault)

AllSkippable(rest) == \A i \in 1..Len(rest) : rest[i] = <<>> \/ rest[i] = DotSeg

\* The location the operating system reaches when the path is opened or
\* created: links and '..' are resolved physically; a missing final component
\* is created in the directory reached so far; a missing intermediate
\* component makes the access fail.
RECURSIVE LocWalk(_, _, _)
LocWalk(cur, rest, fuel) ==
  IF rest = <<>> THEN [ok |-> TRUE, segs |-> cur]
  ELSE IF cur \in fs.files THEN [ok |-> FALSE, segs |-> cur]
  ELSE LET c == Head(rest)
           p == Append(cur, c)
       IN IF c = <<>> \/ c = DotSeg THEN LocWalk(cur, Tail(rest), fuel)
          ELSE IF c = DotDotSeg THEN LocWalk(dropLast(cur), Tail(rest), fuel)
          ELSE IF isLink(p)
            THEN IF fuel = 0 THEN [ok |-> FALSE, segs |-> cur]
                 ELSE LocWalk(<<>>, linkTarget(p) \o Tail(rest), fuel - 1)
          ELSE IF exists(p) THEN LocWalk(p, Tail(rest), fuel)
          ELSE IF AllSkippable(Tail(rest)) THEN [ok |-> TRUE, segs |-> p]
          ELSE [ok |-> FALSE, segs |-> cur]

TrueLocation(p) == LocWalk(<<>>, Split(p), MaxLinkDepth)

\* the string the tool hands to the operating system, relative to the root
accessedPath(candidate, vault) ==
  LET expandedPath == expandHome(candidate)
  IN IF isAbsolute(expandedPath) THEN expandedPath
     ELSE vault \o <<sep>> \o expandedPath

EscapesRoot(candidate, vault) ==
  LET loc == TrueLocation(accessedPath(candidate, vault))
      root == TrueLocation(vault)
  IN loc.ok /\ root.ok /\ ~IsSegPrefix(root.segs, loc.segs)

(***************************************************************************)
(* Claims on path containment                                              *)
(***************************************************************************)
\* C1: isPathWithinVault(C, R) is true if and only if the canonical form of C
\* equals the canonical form of R or is a proper descendant of it on full
\* path-segment boundaries.
C1_WithinIffSegmentDescendant ==
  pathChecked =>
    (withinResult <=>
       IsSegPrefix(SegmentsOf(canonicalRoot(vaultPath)),
                   SegmentsOf(canonicalCandidate(candidatePath, vaultPath))))

\* C2: isPathWithinVault never returns true for a candidate whose
\* symlink-resolved location lies outside the root, a candidate whose final
\* component does not exist yet included.
C2_NoEscapeUnderSymlinks ==
  pathChecked /\ withinResult => ~EscapesRoot(candidatePath, vaultPath)

(***************************************************************************)
(* tools/toolNames, tools/toolInput                                        *)
(***************************************************************************)
TOOL_BASH == "Bash"
TOOL_READ == "Read"
TOOL_GLOB == "Glob"
TOOL_GREP == "Grep"

EditTools == {"Write", "Edit", "NotebookEdit"}
FileTools == {"Read", "Write", "Edit", "NotebookEdit", "Glob", "Grep", "LS"}
Tools == FileTools \cup {TOOL_BASH, "WebSearch"}

isEditTool(toolName) == toolName \in EditTools
isFileTool(toolName) == toolName \in FileTools

\* a value that is not a non-empty string yields no path
stringOrNone(v) == IF v.kind = "string" /\ v.s # <<>> THEN v ELSE NoVal

\* table-driven extraction; NoVal stands for null
getPathFromToolInput(toolName, toolInput) ==
  IF toolName \in {"Read", "Write", "Edit", "NotebookEdit"}
    THEN stringOrNone(toolInput.file_path)
  ELSE IF toolName \in {"Glob", "Grep", "LS"}
    THEN Or(stringOrNone(toolInput.path), stringOrNone(toolInput.pattern))
  ELSE NoVal

(***************************************************************************)
(* security/BlocklistChecker, security/BashPathValidator                   *)
(***************************************************************************)
RECURSIVE AnyPatternIn(_, _)
AnyPatternIn(command, patterns) ==
  IF patterns = <<>> THEN FALSE
  ELSE \/ (Head(patterns) # <<>> /\ includes(command, Head(patterns)))
       \/ AnyPatternIn(command, Tail(patterns))

isCommandBlocked(command, patterns, enabled) ==
  IF ~enabled THEN FALSE ELSE AnyPatternIn(command, patterns)

\* the containment predicates the hooks are given as their context
ctxIsPathWithinVault(p) == isPathWithinVault(p, vaultPath)

ctxIsAllowedExportPath(p) ==
  \E e \in exportPaths :
    LET exportReal == resolveRealPath(e)
        resolved == resolveRealPath(absCandidateOf(p, vaultPath))
    IN resolved = exportReal \/ startsWith(resolved, exportReal \o <<sep>>)

NoViolation == [found |-> FALSE, type |-> "none", path |-> <<>>]
Violation(type, p) == [found |-> TRUE, type |-> type, path |-> p]

RedirectOp == <<">">>

tokenize(command) == SelectSeq(SplitOn(command, " "), LAMBDA t : t # <<>>)

isPathLike(token) == \E i \in 1..Len(token) : token[i] = sep

\* one candidate path with its intent
checkCommandPath(p, isWrite) ==
  IF ctxIsAllowedExportPath(p)
    THEN IF isWrite THEN NoViolation ELSE Violation("export_path_read", p)
  ELSE IF ~ctxIsPathWithinVault(p) THEN Violation("outside_vault", p)
  ELSE NoViolation

\* left to right; the target of an output redirection has write intent; the
\* first violation ends the scan
RECURSIVE scanTokens(_, _)
scanTokens(tokens, isWrite) ==
  IF tokens = <<>> THEN NoViolation
  ELSE LET t == Head(tokens)
       IN IF t = RedirectOp THEN scanTokens(Tail(tokens), TRUE)
          ELSE IF isPathLike(t)
            THEN LET v == checkCommandPath(t, isWrite)
                 IN IF v.found THEN v ELSE scanTokens(Tail(tokens), FALSE)
          ELSE scanTokens(Tail(tokens), FALSE)

findBashCommandPathViolation(command) == scanTokens(tokenize(command), FALSE)

(***************************************************************************)
(* hooks/SecurityHooks                                                     *)
(***************************************************************************)
\* what one hook invocation does: the callbacks it makes, then its return
Run(input, result, callbacks) ==
  [result |-> result,
   events |-> callbacks \o <<Ev("return", input.tool_name, input.tool_input)>>]

blocklistReason(command) == <<Lit("Command blocked by blocklist: "), Val(command)>>

\* faulty variant: the enable flag is not consulted
blocklistHook_IgnoresEnable(input) ==
  LET command == Or(input.tool_input.command, EmptyStr)
  IN IF isCommandBlocked(command.s, blockedCommands, TRUE)
       THEN Run(input, Deny(blocklistReason(command.s)), <<>>)
       ELSE Run(input, Continue, <<>>)

\* createBlocklistHook
blocklistHook(input) ==
  LET command == Or(input.tool_input.command, EmptyStr)
  IN IF isCommandBlocked(command.s, blockedCommands, enableBlocklist)
       THEN Run(input, Deny(blocklistReason(command.s)), <<>>)
       ELSE Run(input, Continue, <<>>)

exportReadReason(p) ==
  <<Lit("Access denied: Command path \""), Val(p),
    Lit("\" is in an allowed export directory, but "),
    Lit("export paths are write-only"), Lit(".")>>

commandOutsideReason(p) ==
  <<Lit("Access denied: Command path \""), Val(p), Lit("\" is "),
    Lit("outside the vault"), Lit(". Agent is restricted to vault directory only.")>>

pathOutsideReason(p) ==
  <<Lit("Access denied: Path \""), Val(p), Lit("\" is "),
    Lit("outside the vault"), Lit(". Agent is restricted to vault directory only.")>>

\* faulty variant: the two denial reasons are exchanged
vaultHookBash_SwappedReasons(input) ==
  LET command == Or(input.tool_input.command, EmptyStr)
      violation == findBashCommandPathViolation(command.s)
  IN IF violation.found
       THEN IF violation.type = "export_path_read"
              THEN Run(input, Deny(commandOutsideReason(violation.path)), <<>>)
              ELSE Run(input, Deny(exportReadReason(violation.path)), <<>>)
       ELSE Run(input, Continue, <<>>)

\* the Bash branch of createVaultRestrictionHook
vaultHookBash(input) ==
  LET command == Or(input.tool_input.command, EmptyStr)
      violation == findBashCommandPathViolation(command.s)
  IN IF violation.found
       THEN IF violation.type = "export_path_read"
              THEN Run(input, Deny(exportReadReason(violation.path)), <<>>)
              ELSE Run(input, Deny(commandOutsideReason(violation.path)), <<>>)
       ELSE Run(input, Continue, <<>>)

\* faulty variant: the bypass does not ask whether the tool writes
exportBypass_AnyTool(toolName, filePath) == ctxIsAllowedExportPath(filePath)

\* the export-path bypass for write operations
exportBypass(toolName, filePath) ==
  isEditTool(toolName) /\ ctxIsAllowedExportPath(filePath)

\* faulty variant: the callback fires for every blocked file tool
editBlockedCallbacks_AnyTool(input) ==
  IF hasOnEditBlocked
    THEN <<Ev("onEditBlocked", input.tool_name, input.tool_input)>>
    ELSE <<>>

\* context.onEditBlocked?.(toolName, input.tool_input) for a blocked edit tool
editBlockedCallbacks(input) ==
  IF isEditTool(input.tool_name) /\ hasOnEditBlocked
    THEN <<Ev("onEditBlocked", input.tool_name, input.tool_input)>>
    ELSE <<>>

\* the direct file tool branch of createVaultRestrictionHook
vaultHookFile(input) ==
  LET toolName == input.tool_name
      filePath == getPathFromToolInput(toolName, input.tool_input)
  IN IF truthy(filePath) /\ ~ctxIsPathWithinVault(filePath.s)
       THEN IF exportBypass(toolName, filePath.s) THEN Run(input, Continue, <<>>)
            ELSE Run(input, Deny(pathOutsideReason(filePath.s)), editBlockedCallbacks(input))
       ELSE Run(input, Continue, <<>>)

\* createVaultRestrictionHook
vaultRestrictionHook(input) ==
  IF input.tool_name = TOOL_BASH THEN vaultHookBash(input)
  ELSE IF ~isFileTool(input.tool_name) THEN Run(input, Continue, <<>>)
  ELSE vaultHookFile(input)

(***************************************************************************)
(* InstructionRefineService: reduced-capability hooks                      *)
(***************************************************************************)
\* faulty variant: a write tool slips into the allow-set
READ_ONLY_TOOLS_WithWrite == {TOOL_READ, TOOL_GREP, TOOL_GLOB, "Write"}

READ_ONLY_TOOLS == {TOOL_READ, TOOL_GREP, TOOL_GLOB}

readOnlyReason(toolName) ==
  <<Lit("Instruction refine mode: tool \""), Name(toolName), Lit("\" is "),
    Lit("not allowed"), Lit(" (read-only)")>>

\* createReadOnlyHook
readOnlyHook(input) ==
  IF input.tool_name \in READ_ONLY_TOOLS THEN Run(input, Continue, <<>>)
  ELSE Run(input, Deny(readOnlyReason(input.tool_name)), <<>>)

\* faulty variant: the reason does not interpolate the path
refineOutsideReason_NoPath(p) ==
  <<Lit("Access denied: path is "), Lit("outside the vault")>>

refineOutsideReason(p) ==
  <<Lit("Access denied: \""), Val(p), Lit("\" is "), Lit("outside the vault")>>

\* the path expression of the refine service's vault restriction hook
refineFilePath(input) ==
  IF input.tool_name = "Read"
    THEN Or(input.tool_input.file_path, EmptyStr)
    ELSE Or(Or(input.tool_input.path, input.tool_input.pattern), EmptyStr)

\* InstructionRefineService.createVaultRestrictionHook; a truthy value that
\* is not a string reaches candidatePath.startsWith, which throws
refineVaultHook(input) ==
  IF input.tool_name = "Read" \/ input.tool_name = "Glob" \/ input.tool_name = "Grep"
    THEN LET filePath == refineFilePath(input)
         IN IF ~truthy(filePath) THEN Run(input, Continue, <<>>)
            ELSE IF filePath.kind # "string" THEN Run(input, Threw, <<>>)
            ELSE IF ~isPathWithinVault(filePath.s, vaultPath)
              THEN Run(input, Deny(refineOutsideReason(filePath.s)), <<>>)
            ELSE Run(input, Continue, <<>>)
    ELSE Run(input, Continue, <<>>)

\* faulty variant: the two hooks are registered in the other order
refineHooks_Swapped == <<"vaultRestrictionHook", "readOnlyHook">>

\* options.hooks.PreToolUse of sendMessage, in order
refineHooks == <<"readOnlyHook", "vaultRestrictionHook">>

applyHook(name, input) ==
  IF name = "readOnlyHook" THEN readOnlyHook(input) ELSE refineVaultHook(input)

\* the hooks of a chain are evaluated in order; the chain stops at the first
\* hook that does not return continue = true
RECURSIVE runChain(_, _, _)
runChain(hooks, input, events) ==
  LET r == applyHook(Head(hooks), input)
      seen == events \o <<Ev(Head(hooks), input.tool_name, input.tool_input)>>
  IN IF r.result.threw \/ ~r.result.continue \/ Len(hooks) = 1
       THEN [result |-> r.result, events |-> seen]
       ELSE runChain(Tail(hooks), input, seen)

refineChain(input) == runChain(refineHooks, input, <<>>)

(***************************************************************************)
(* The policy hooks as a state machine: a tool call arrives (ToolCall), one *)
(* hook or hook chain decides it, the decision is delivered to the runtime *)
(***************************************************************************)
InPath == <<"/", "v", "/", "x">>
ExportDir == <<"/", "x">>
ExportFile == <<"/", "x", "/", "v">>
OutPath == <<"/", "v", "x">>
ClimbPath == <<".", ".", "/", "x">>

FilePathVals == {Str(InPath), Str(ExportFile), Str(OutPath), EmptyStr, NoVal, Other}
PathVals == {Str(InPath), Str(ExportFile), Str(OutPath), EmptyStr, NoVal, Other}
PatternVals == {Str(OutPath), Str(ClimbPath), NoVal}

CommandWord == <<"c">>
CommandTokens == {CommandWord, RedirectOp, InPath, ExportFile, OutPath}

RECURSIVE TokenSeqs(_)
TokenSeqs(n) ==
  IF n = 0 THEN {<<>>}
  ELSE LET shorter == TokenSeqs(n - 1)
       IN shorter \cup {Append(ts, t) : ts \in {u \in shorter : Len(u) = n - 1}, t \in CommandTokens}

RECURSIVE joinTokens(_)
joinTokens(ts) ==
  IF ts = <<>> THEN <<>>
  ELSE IF Len(ts) = 1 THEN Head(ts)
  ELSE Head(ts) \o <<" ">> \o joinTokens(Tail(ts))

CommandVals == {NoVal} \cup {Str(joinTokens(ts)) : ts \in TokenSeqs(MaxTokens)}

FileInputs ==
  {ToolInput(fp, pa, pt, NoVal) : fp \in FilePathVals, pa \in PathVals, pt \in PatternVals}
BashInputs == {ToolInput(NoVal, NoVal, NoVal, c) : c \in CommandVals}

HookInputs ==
  {HookInput(t, i) : t \in Tools \ {TOOL_BASH}, i \in FileInputs}
    \cup {HookInput(TOOL_BASH, i) : i \in BashInputs}

HookFileSystems == {FsPlain, FsLinkOut}
HookRoots == {<<"/", "v">>}
ExportPathSets == {{}, {ExportDir}}
BlockedPattern == <<"c", " ", ">">>
BlockLists == {<<>>, <<BlockedPattern>>}

InitHooks ==
  /\ fs \in HookFileSystems
  /\ vaultPath \in HookRoots
  /\ candidatePath = <<>>
  /\ withinResult = FALSE
  /\ pathChecked = FALSE
  /\ exportPaths \in ExportPathSets
  /\ blockedCommands \in BlockLists
  /\ enableBlocklist \in BOOLEAN
  /\ hasOnEditBlocked \in BOOLEAN
  /\ phase = "idle"
  /\ call = NoCall
  /\ hook = "none"
  /\ outcome = NoOutcome
  /\ trace = <<>>
  /\ SessionUnused
  /\ ParseUnused
  /\ TransformUnused

\* the runtime is about to execute a tool call
ToolCall ==
  \E c \in HookInputs :
    /\ phase = "idle"
    /\ phase' = "pending"
    /\ call' = c
    /\ UNCHANGED <<envVars, pathVars, ctxVars, hook, outcome, trace, sessionVars, parseVars, transformVars>>

\* faulty variant: evaluating a hook switches the blocklist off
Decide_DisablesBlocklist(name, run) ==
  /\ phase' = "decided"
  /\ hook' = name
  /\ outcome' = run.result
  /\ trace' = run.events
  /\ enableBlocklist' = FALSE
  /\ UNCHANGED <<envVars, pathVars, exportPaths, blockedCommands,
                 hasOnEditBlocked, call, sessionVars, parseVars,
                 transformVars>>

\* a hook returns its decision; it assigns to nothing of its context
Decide(name, run) ==
  /\ phase' = "decided"
  /\ hook' = name
  /\ outcome' = run.result
  /\ trace' = run.events
  /\ UNCHANGED <<envVars, pathVars, ctxVars, call, sessionVars, parseVars, transformVars>>

\* matcher: TOOL_BASH
RunBlocklistHook ==
  /\ phase = "pending"
  /\ call.tool_name = TOOL_BASH
  /\ Decide("blocklist", blocklistHook(call))

RunVaultRestrictionHook ==
  /\ phase = "pending"
  /\ Decide("vaultRestriction", vaultRestrictionHook(call))

RunReadOnlyHook ==
  /\ phase = "pending"
  /\ Decide("readOnly", readOnlyHook(call))

RunRefineVaultHook ==
  /\ phase = "pending"
  /\ Decide("refineVaultRestriction", refineVaultHook(call))

RunRefineChain ==
  /\ phase = "pending"
  /\ Decide("refineChain", refineChain(call))

\* the decision has been handed to the runtime
Deliver ==
  /\ phase = "decided"
  /\ phase' = "idle"
  /\ call' = NoCall
  /\ hook' = "none"
  /\ outcome' = NoOutcome
  /\ trace' = <<>>
  /\ UNCHANGED <<envVars, pathVars, ctxVars, sessionVars, parseVars, transformVars>>

\* the blocklist settings change between two invocations; getContext() reads
\* them at the next one
RebuildContext ==
  /\ phase = "idle"
  /\ \E list \in BlockLists, enabled \in BOOLEAN :
       /\ <<list, enabled>> # <<blockedCommands, enableBlocklist>>
       /\ blockedCommands' = list
       /\ enableBlocklist' = enabled
  /\ UNCHANGED <<envVars, pathVars, exportPaths, hasOnEditBlocked, hookVars, sessionVars, parseVars, transformVars>>

NextHooks ==
  \/ ToolCall
  \/ RunBlocklistHook
  \/ RunVaultRestrictionHook
  \/ RunReadOnlyHook
  \/ RunRefineVaultHook
  \/ RunRefineChain
  \/ Deliver
  \/ RebuildContext

SpecHooks == InitHooks /\ [][NextHooks]_vars

(***************************************************************************)
(* Claims on the policy hooks.  "Within the root" is the verdict of the    *)
(* containment predicate the hook consults.                                *)
(***************************************************************************)
Decided(name) == phase = "decided" /\ hook = name

HasPart(reason, part) == \E i \in 1..Len(reason) : reason[i] = part

IsDenial(o) == ~o.threw /\ ~o.continue
IsContinue(o) == ~o.threw /\ o.continue

\* the path a Read, Glob or Grep call names: file_path for Read; path, else
\* pattern, for Glob and Grep; none when the argument is missing or no string
namedReadPath(input) ==
  IF input.tool_name = "Read" THEN stringOrNone(input.tool_input.file_path)
  ELSE IF input.tool_name \in {"Glob", "Grep"}
    THEN Or(stringOrNone(input.tool_input.path), stringOrNone(input.tool_input.pattern))
  ELSE NoVal

readOutsideRoot(input) ==
  /\ input.tool_name \in {"Read", "Glob", "Grep"}
  /\ namedReadPath(input).kind = "string"
  /\ ~isPathWithinVault(namedReadPath(input).s, vaultPath)

\* C3: the reduced-capability vault restriction hook returns continue=false
\* exactly when the tool is Read, Glob or Grep and the extracted path is
\* non-empty and not within the root, with a reason that contains the path and
\* 'outside the vault'; every other call gets continue=true.
C3_RefineVaultDecision ==
  Decided("refineVaultRestriction") =>
    IF readOutsideRoot(call)
      THEN /\ IsDenial(outcome)
           /\ HasPart(outcome.reason, Val(namedReadPath(call).s))
           /\ HasPart(outcome.reason, Lit("outside the vault"))
      ELSE IsContinue(outcome)

\* C4: the read-only hook returns continue=true if and only if the tool is in
\* the read-only allow-set, whatever the arguments; any other tool is denied
\* with permissionDecision 'deny' and a reason naming the tool and saying it
\* is not allowed.
C4_ReadOnlyHookAllowSet ==
  Decided("readOnly") =>
    /\ ~outcome.threw
    /\ outcome.continue <=> call.tool_name \in {"Read", "Grep", "Glob"}
    /\ ~outcome.continue =>
         /\ outcome.permissionDecision = "deny"
         /\ HasPart(outcome.reason, Name(call.tool_name))
         /\ HasPart(outcome.reason, Lit("not allowed"))

C4_Witness ==
  /\ Decided("readOnly")
  /\ call.tool_name = "Write"
  /\ call.tool_input.file_path = Str(InPath)
  /\ IsDenial(outcome)

hookNames(events) == [i \in 1..Len(events) |-> events[i].ev]

\* C5: the chain [read-only hook, vault restriction hook] is evaluated in
\* order and stops at the first continue=false; a call passes the chain only
\* if its tool is in the read-only allow-set and its extracted path, if any,
\* is within the root; no write-capable or shell tool call passes.
C5_RefineChain ==
  Decided("refineChain") =>
    /\ hookNames(trace) \in {<<"readOnlyHook">>, <<"readOnlyHook", "vaultRestrictionHook">>}
    /\ call.tool_name \notin {"Read", "Grep", "Glob"} =>
         /\ hookNames(trace) = <<"readOnlyHook">>
         /\ IsDenial(outcome)
    /\ IsContinue(outcome) =>
         /\ call.tool_name \in {"Read", "Grep", "Glob"}
         /\ hookNames(trace) = <<"readOnlyHook", "vaultRestrictionHook">>
         /\ ~readOutsideRoot(call)
    /\ call.tool_name \in EditTools \cup {TOOL_BASH} => ~IsContinue(outcome)

C5_Witness ==
  /\ Decided("refineChain")
  /\ call.tool_name = "Read"
  /\ readOutsideRoot(call)
  /\ hookNames(trace) = <<"readOnlyHook", "vaultRestrictionHook">>
  /\ IsDenial(outcome)

\* C6: in the full vault restriction hook a file tool whose extracted path is
\* outside the root is allowed only when the tool is an edit tool and the path
\* is an allowed export path; otherwise it is denied with a reason naming the
\* path and saying it is outside the vault; a path within the root is allowed.
C6_VaultHookFileTools ==
  Decided("vaultRestriction") /\ call.tool_name \in FileTools =>
    LET p == getPathFromToolInput(call.tool_name, call.tool_input)
    IN /\ ~outcome.threw
       /\ (p.kind = "string" /\ ctxIsPathWithinVault(p.s)) => outcome.continue
       /\ (p.kind = "string" /\ ~ctxIsPathWithinVault(p.s)) =>
            /\ outcome.continue <=>
                 (call.tool_name \in EditTools /\ ctxIsAllowedExportPath(p.s))
            /\ ~outcome.continue =>
                 /\ HasPart(outcome.reason, Val(p.s))
                 /\ HasPart(outcome.reason, Lit("outside the vault"))

C6_Witness ==
  /\ Decided("vaultRestriction")
  /\ call.tool_name = "Read"
  /\ call.tool_input.file_path = Str(ExportFile)
  /\ ctxIsAllowedExportPath(ExportFile)
  /\ IsDenial(outcome)

callbackEvents(events) == SelectSeq(events, LAMBDA e : e.ev = "onEditBlocked")

\* C7: onEditBlocked is invoked exactly once, with the tool name and tool
\* input, before the denial is returned, for every call the vault restriction
\* hook denies to an edit tool; it is never invoked when the decision is
\* continue=true nor when the denied tool is not an edit tool.
C7_OnEditBlocked ==
  Decided("vaultRestriction") =>
    IF IsDenial(outcome) /\ call.tool_name \in EditTools /\ hasOnEditBlocked
      THEN trace = <<Ev("onEditBlocked", call.tool_name, call.tool_input),
                     Ev("return", call.tool_name, call.tool_input)>>
      ELSE callbackEvents(trace) = <<>>

C7_Witness ==
  /\ Decided("vaultRestriction")
  /\ call.tool_name = "Write"
  /\ hasOnEditBlocked
  /\ IsDenial(outcome)
  /\ Len(callbackEvents(trace)) = 1

commandText(input) ==
  IF input.tool_input.command.kind = "string" THEN input.tool_input.command.s ELSE <<>>

\* C8: the blocklist hook denies a shell-tool call if and only if
\* isCommandBlocked(command, blockedCommands, enableBlocklist); with
\* enableBlocklist false it never denies; a missing command is the empty
\* string; every denial's reason contains the full command text.
C8_BlocklistHook ==
  Decided("blocklist") =>
    /\ ~outcome.threw
    /\ ~outcome.continue <=>
         isCommandBlocked(commandText(call), blockedCommands, enableBlocklist)
    /\ ~enableBlocklist => outcome.continue
    /\ ~outcome.continue => HasPart(outcome.reason, Val(commandText(call)))

C8_Witness ==
  /\ Decided("blocklist")
  /\ enableBlocklist
  /\ call.tool_input.command.kind = "string"
  /\ IsDenial(outcome)

\* the tokens of a command that violate containment, stated position by
\* position: a path under an export path not written to by a redirection, or
\* a path that is neither under an export path nor within the root
violatesAt(tokens, i) ==
  /\ isPathLike(tokens[i])
  /\ IF ctxIsAllowedExportPath(tokens[i])
       THEN ~(i > 1 /\ tokens[i - 1] = RedirectOp)
       ELSE ~ctxIsPathWithinVault(tokens[i])

firstViolation(tokens) ==
  CHOOSE i \in 1..Len(tokens) :
    violatesAt(tokens, i) /\ \A j \in 1..(i - 1) : ~violatesAt(tokens, j)

\* C9: for the shell tool the vault restriction hook denies if and only if
\* the command path scan reports a violation, which is the first one in the
\* command: a read-intent reference to a path under an export path is denied
\* as an export-path read (write-only), a write-intent reference to it is
\* allowed, any other path outside the root is denied as outside the vault;
\* the reason names the violating path.
C9_VaultHookBash ==
  Decided("vaultRestriction") /\ call.tool_name = TOOL_BASH =>
    LET tokens == tokenize(commandText(call))
        bad == {i \in 1..Len(tokens) : violatesAt(tokens, i)}
    IN /\ ~outcome.threw
       /\ ~outcome.continue <=> bad # {}
       /\ bad # {} =>
            LET t == tokens[firstViolation(tokens)]
            IN /\ HasPart(outcome.reason, Val(t))
               /\ IF ctxIsAllowedExportPath(t)
                    THEN HasPart(outcome.reason, Lit("export paths are write-only"))
                    ELSE HasPart(outcome.reason, Lit("outside the vault"))

C9_Witness ==
  /\ Decided("vaultRestriction")
  /\ call.tool_name = TOOL_BASH
  /\ commandText(call) = joinTokens(<<CommandWord, RedirectOp, ExportFile>>)
  /\ ctxIsAllowedExportPath(ExportFile)
  /\ IsContinue(outcome)

C9_WitnessRead ==
  /\ Decided("vaultRestriction")
  /\ call.tool_name = TOOL_BASH
  /\ commandText(call) = joinTokens(<<CommandWord, ExportFile, OutPath>>)
  /\ ctxIsAllowedExportPath(ExportFile)
  /\ HasPart(outcome.reason, Lit("export paths are write-only"))

\* the strings a call offers as offending path or command
inputStrings(input) ==
  {v.s : v \in {w \in {input.tool_input.file_path, input.tool_input.path,
                        input.tool_input.pattern, input.tool_input.command} :
                  w.kind = "string"}}
    \cup {t : t \in {tokenize(commandText(input))[i] : i \in 1..Len(tokenize(commandText(input)))}}

NamesOffender(reason, input) ==
  \E i \in 1..Len(reason) :
    \/ reason[i] = Name(input.tool_name)
    \/ reason[i].kind = "str" /\ reason[i].chars \in inputStrings(input)

\* C10: every Decision with continue=false returned by any hook carries
\* permissionDecision 'deny' and a non-empty reason that contains the
\* offending path, command or tool name verbatim.
C10_DenialsCarryReason ==
  phase = "decided" /\ IsDenial(outcome) =>
    /\ outcome.permissionDecision = "deny"
    /\ outcome.reason # <<>>
    /\ NamesOffender(outcome.reason, call)

C10_Witness ==
  /\ Decided("refineVaultRestriction")
  /\ call.tool_name = "Grep"
  /\ IsDenial(outcome)
  /\ HasPart(outcome.reason, Val(OutPath))

(***************************************************************************)
(* Claims on relative paths and malformed arguments                        *)
(***************************************************************************)
isRelative(candidate) ==
  ~isAbsolute(candidate) /\ ~startsWith(candidate, <<"~", sep>>)

\* the canonical form of a relative candidate taken against the root
canonicalAgainstRoot(candidate, vault) ==
  resolveRealPath(pathResolve(vault \o <<sep>> \o candidate))

\* C11: a relative candidate path is resolved against the root, not the
\* process working directory: it is within the root exactly when its canonical
\* form taken against the root stays under the root; one that climbs out of
\* the root with '..' is not within it.
C11_RelativeAgainstRoot ==
  pathChecked /\ isRelative(candidatePath) =>
    (withinResult <=>
       IsSegPrefix(SegmentsOf(canonicalRoot(vaultPath)),
                   SegmentsOf(canonicalAgainstRoot(candidatePath, vaultPath))))

isContainmentHook(name) == name \in {"refineVaultRestriction", "vaultRestriction"}

\* C12: for a file tool whose path argument is missing or is not a string the
\* containment hook returns a Decision; it never raises an error on malformed
\* arguments.
C12_MalformedArgumentsDecided ==
  (/\ phase = "decided"
   /\ isContainmentHook(hook)
   /\ call.tool_name \in FileTools) => ~outcome.threw

(***************************************************************************)
(* InstructionRefineService as a state machine.  A step is what runs       *)
(* between two awaits: a whole call up to its first await, the loop body   *)
(* for one message, the end of the stream, a cancel() or a reset.  The      *)
(* local responseText of a call is gone once the call has returned, and    *)
(* progress holds the updates of a call in flight.  The calls of one       *)
(* behaviour all pass a progress callback, or none does.                   *)
(***************************************************************************)
SessionIds == {"s1", "s2"}
\* <<>> : getVaultPath finds no path
SessionRoots == {<<>>, <<"/", "v">>}
AssistantTexts == {<<>>, <<"a">>, <<OpenTag, "a", CloseTag>>}
Messages ==
  {Message("system", "init", s, <<>>) : s \in SessionIds \cup {NoSession}}
    \cup {Message("system", "status", "s2", <<>>)}
    \cup {Message("assistant", "", "s2", text) : text \in AssistantTexts}
    \cup {Message("result", "success", "s2", <<>>)}
    \cup {Message("user", "", "s2", <<"a">>)}
    \cup {ErrorEvent("failed")}
ThrownValues == {ThrownError("boom"), ThrownOther}

\* the value thrown matters only when the opening throws
OpeningOutcome(opens, error) == opens => error = ThrownOther

\* the fields of the instance that the methods assign
Service ==
  [sessionId |-> sessionId, abortController |-> abortController,
   aborted |-> aborted]

Becomes(svc) ==
  /\ sessionId' = svc.sessionId
  /\ abortController' = svc.abortController
  /\ aborted' = svc.aborted

\* faulty variant: cancel also forgets the conversation
cancel_ClearsSession(svc) ==
  IF svc.abortController # 0
  THEN [svc EXCEPT !.aborted = @ \cup {svc.abortController},
                   !.abortController = 0, !.sessionId = NoSession]
  ELSE svc

cancel(svc) ==
  IF svc.abortController # 0
  THEN [svc EXCEPT !.aborted = @ \cup {svc.abortController},
                   !.abortController = 0]
  ELSE svc

resetConversation(svc) == [svc EXCEPT !.sessionId = NoSession]

\* faulty variant: the end of a turn keeps the token
finallyBlock_KeepsToken(svc) == svc

\* faulty variant: the end of a turn also forgets the conversation
finallyBlock_ClearsSession(svc) ==
  [svc EXCEPT !.abortController = 0, !.sessionId = NoSession]

\* finally { this.abortController = null }
finallyBlock(svc) == [svc EXCEPT !.abortController = 0]

\* faulty variant: no turn resumes a conversation
resumeOf_Never(sid) == NoSession

\* if (this.sessionId) options.resume = this.sessionId
resumeOf(sid) == sid

\* faulty variant: the vault restriction hook is not attached
Options_NoVaultHook(root, resume, controller) ==
  [cwd |-> root,
   abortController |-> controller,
   allowedTools |-> READ_ONLY_TOOLS,
   permissionMode |-> "bypassPermissions",
   preToolUse |-> <<"readOnlyHook">>,
   resume |-> resume]

Options(root, resume, controller) ==
  [cwd |-> root,
   abortController |-> controller,
   allowedTools |-> READ_ONLY_TOOLS,
   permissionMode |-> "bypassPermissions",
   preToolUse |-> refineHooks,
   resume |-> resume]

Finished(kind, cb, queries, options, result) ==
  [NoTurn EXCEPT !.status = "done", !.kind = kind, !.onProgress = cb,
                 !.queries = queries, !.options = options, !.result = result]

Streaming(kind, cb, options) ==
  [NoTurn EXCEPT !.status = "streaming", !.kind = kind, !.onProgress = cb,
                 !.queries = 1, !.options = options]

\* faulty variant: the executable is looked for before the root
sendMessage_CliFirst(svc, cached, t, kind, cb, opens, error) ==
  LET found == cached \/ cliInstalled
  IN IF ~found
     THEN [svc |-> svc, cached |-> found,
           turn |-> Finished(kind, cb, 0, NoOptions, Failure(NoCliError))]
     ELSE IF vaultPath = <<>>
     THEN [svc |-> svc, cached |-> found,
           turn |-> Finished(kind, cb, 0, NoOptions, Failure(NoVaultError))]
     ELSE LET started == [svc EXCEPT !.abortController = t]
              options == Options(vaultPath, resumeOf(svc.sessionId), t)
          IN IF opens
             THEN [svc |-> started, cached |-> found,
                   turn |-> Streaming(kind, cb, options)]
             ELSE [svc |-> finallyBlock(started), cached |-> found,
                   turn |-> Finished(kind, cb, 1, options,
                                     Failure(errorMessage(error)))]

\* sendMessage up to its first await, as call t; opens tells whether
\* agentQuery returns a stream, error is what it throws otherwise
sendMessage(svc, cached, t, kind, cb, opens, error) ==
  IF vaultPath = <<>>
  THEN [svc |-> svc, cached |-> cached,
        turn |-> Finished(kind, cb, 0, NoOptions, Failure(NoVaultError))]
  ELSE LET found == cached \/ cliInstalled
       IN IF ~found
          THEN [svc |-> svc, cached |-> found,
                turn |-> Finished(kind, cb, 0, NoOptions, Failure(NoCliError))]
          ELSE LET started == [svc EXCEPT !.abortController = t]
                   options == Options(vaultPath, resumeOf(svc.sessionId), t)
               IN IF opens
                  THEN [svc |-> started, cached |-> found,
                        turn |-> Streaming(kind, cb, options)]
                  ELSE [svc |-> finallyBlock(started), cached |-> found,
                        turn |-> Finished(kind, cb, 1, options,
                                          Failure(errorMessage(error)))]

refineInstruction(svc, cached, t, cb, opens, error) ==
  sendMessage([svc EXCEPT !.sessionId = NoSession], cached, t, "refine", cb,
              opens, error)

\* faulty variant: the missing session id is not checked
continueConversation_NoGuard(svc, cached, t, cb, opens, error) ==
  sendMessage(svc, cached, t, "continue", cb, opens, error)

continueConversation(svc, cached, t, cb, opens, error) ==
  IF svc.sessionId = NoSession
  THEN [svc |-> svc, cached |-> cached,
        turn |-> Finished("continue", cb, 0, NoOptions,
                          Failure(NoConversationError))]
  ELSE sendMessage(svc, cached, t, "continue", cb, opens, error)

\* faulty variant: the callback gets the parse of the new text alone
onMessage_ProgressOfIncrement(svc, turn, message) ==
  IF svc.abortController # 0 /\ svc.abortController \in svc.aborted
  THEN [svc |-> finallyBlock(svc), consumed |-> FALSE,
        turn |-> [turn EXCEPT !.status = "done",
                              !.interrupts = @ + 1, !.responseText = <<>>,
                              !.progress = <<>>,
                              !.result = Failure(CancelledError)]]
  ELSE LET text == extractTextFromMessage(message)
           responseText == turn.responseText \o text
       IN [svc |-> [svc EXCEPT !.sessionId =
                      IF isSessionInit(message) THEN message.session_id ELSE @],
           consumed |-> TRUE,
           turn |-> [turn EXCEPT
                       !.responseText = responseText,
                       !.progress =
                         IF text # <<>> /\ turn.onProgress
                         THEN Append(@, parseResponse(text)) ELSE @]]

\* the body of the for-await loop for one message of the stream of a turn;
\* the cancelled branch includes the awaited interrupt() and the finally
onMessage(svc, turn, message) ==
  IF svc.abortController # 0 /\ svc.abortController \in svc.aborted
  THEN [svc |-> finallyBlock(svc), consumed |-> FALSE,
        turn |-> [turn EXCEPT !.status = "done",
                              !.interrupts = @ + 1, !.responseText = <<>>,
                              !.progress = <<>>,
                              !.result = Failure(CancelledError)]]
  ELSE LET text == extractTextFromMessage(message)
           responseText == turn.responseText \o text
       IN [svc |-> [svc EXCEPT !.sessionId =
                      IF isSessionInit(message) THEN message.session_id ELSE @],
           consumed |-> TRUE,
           turn |-> [turn EXCEPT
                       !.responseText = responseText,
                       !.progress =
                         IF text # <<>> /\ turn.onProgress
                         THEN Append(@, parseResponse(responseText)) ELSE @]]

\* return this.parseResponse(responseText), then the finally
onStreamEnd(svc, turn) ==
  [svc |-> finallyBlock(svc),
   turn |-> [turn EXCEPT !.status = "done",
                         !.responseText = <<>>, !.progress = <<>>,
                         !.result = parseResponse(turn.responseText)]]

\* faulty variant: a throw of the stream opens the runtime call again
onStreamThrow_Retry(svc, turn, error) ==
  IF turn.queries < 2
  THEN [svc |-> svc,
        turn |-> [turn EXCEPT !.queries = @ + 1, !.responseText = <<>>,
                              !.progress = <<>>]]
  ELSE [svc |-> finallyBlock(svc),
        turn |-> [turn EXCEPT !.status = "done",
                              !.responseText = <<>>, !.progress = <<>>,
                              !.result = Failure(errorMessage(error))]]

\* the catch block, then the finally
onStreamThrow(svc, turn, error) ==
  [svc |-> finallyBlock(svc),
   turn |-> [turn EXCEPT !.status = "done",
                         !.responseText = <<>>, !.progress = <<>>,
                         !.result = Failure(errorMessage(error))]]

InitSession ==
  /\ fs = FsPlain
  /\ vaultPath \in SessionRoots
  /\ candidatePath = <<>>
  /\ withinResult = FALSE
  /\ pathChecked = FALSE
  /\ exportPaths = {}
  /\ blockedCommands = <<>>
  /\ enableBlocklist = FALSE
  /\ hasOnEditBlocked = FALSE
  /\ phase = "idle"
  /\ call = NoCall
  /\ hook = "none"
  /\ outcome = NoOutcome
  /\ trace = <<>>
  /\ sessionId = NoSession
  /\ abortController = 0
  /\ aborted = {}
  /\ resolvedClaudePath = FALSE
  /\ cliInstalled \in BOOLEAN
  /\ turns = [t \in 1..MaxTurns |-> NoTurn]
  /\ delivered = 0
  /\ lastInit = NoSession
  /\ ParseUnused
  /\ TransformUnused

\* t is the next call of the behaviour
IsNextCall(t) ==
  /\ turns[t].status = "none"
  /\ \A u \in 1..(t - 1) : turns[u].status # "none"

\* a SystemInit event: a system message of subtype init with a session id
IsSystemInit(message) ==
  /\ message.type = "system"
  /\ message.subtype = "init"
  /\ message.session_id \in SessionIds

\* whether call t passes onProgress: as the first call did
Callbacks(t) == IF t = 1 THEN BOOLEAN ELSE {turns[1].onProgress}

otherVars == <<envVars, pathVars, ctxVars, hookVars, cliInstalled,
               parseVars, transformVars>>
callVars == <<otherVars, delivered>>

RefineInstruction ==
  \E t \in 1..MaxTurns, opens \in BOOLEAN, e \in ThrownValues :
  \E cb \in Callbacks(t) :
    /\ IsNextCall(t)
    /\ OpeningOutcome(opens, e)
    /\ LET r == refineInstruction(Service, resolvedClaudePath, t, cb, opens, e)
       IN /\ Becomes(r.svc)
          /\ resolvedClaudePath' = r.cached
          /\ turns' = [turns EXCEPT ![t] = r.turn]
    /\ lastInit' = NoSession
    /\ UNCHANGED callVars

ContinueConversation ==
  \E t \in 1..MaxTurns, opens \in BOOLEAN, e \in ThrownValues :
  \E cb \in Callbacks(t) :
    /\ IsNextCall(t)
    /\ OpeningOutcome(opens, e)
    /\ LET r == continueConversation(Service, resolvedClaudePath, t, cb, opens, e)
       IN /\ Becomes(r.svc)
          /\ resolvedClaudePath' = r.cached
          /\ turns' = [turns EXCEPT ![t] = r.turn]
    /\ UNCHANGED <<callVars, lastInit>>

\* the runtime delivers a message to the loop of a streaming turn
DeliverMessage ==
  \E t \in 1..MaxTurns, m \in Messages :
    /\ turns[t].status = "streaming"
    /\ delivered < MaxMessages
    /\ delivered' = delivered + 1
    /\ LET r == onMessage(Service, turns[t], m)
       IN /\ Becomes(r.svc)
          /\ turns' = [turns EXCEPT ![t] = r.turn]
          /\ lastInit' = IF r.consumed /\ IsSystemInit(m)
                         THEN m.session_id ELSE lastInit
    /\ UNCHANGED <<otherVars, resolvedClaudePath>>

\* the stream of a streaming turn ends
StreamEnds ==
  \E t \in 1..MaxTurns :
    /\ turns[t].status = "streaming"
    /\ LET r == onStreamEnd(Service, turns[t])
       IN /\ Becomes(r.svc)
          /\ turns' = [turns EXCEPT ![t] = r.turn]
    /\ UNCHANGED <<callVars, resolvedClaudePath, lastInit>>

\* awaiting the next message of a streaming turn throws
StreamThrows ==
  \E t \in 1..MaxTurns, e \in ThrownValues :
    /\ turns[t].status = "streaming"
    /\ LET r == onStreamThrow(Service, turns[t], e)
       IN /\ Becomes(r.svc)
          /\ turns' = [turns EXCEPT ![t] = r.turn]
    /\ UNCHANGED <<callVars, resolvedClaudePath, lastInit>>

Cancel ==
  /\ Becomes(cancel(Service))
  /\ UNCHANGED <<callVars, resolvedClaudePath, turns, lastInit>>

ResetConversation ==
  /\ Becomes(resetConversation(Service))
  /\ lastInit' = NoSession
  /\ UNCHANGED <<callVars, resolvedClaudePath, turns>>

NextSession ==
  \/ RefineInstruction
  \/ ContinueConversation
  \/ DeliverMessage
  \/ StreamEnds
  \/ StreamThrows
  \/ Cancel
  \/ ResetConversation

SpecSession == InitSession /\ [][NextSession]_vars

(***************************************************************************)
(* Claims on cancellation and on the session identity                      *)
(***************************************************************************)
TurnIds == 1..MaxTurns
IsStreaming(t) == turns[t].status = "streaming"
IsDone(t) == turns[t].status = "done"

\* cancel() was called while turn t was streaming and held the token: the
\* field holds the controller of t only while t is in flight
WasCancelled(t) == t \in aborted

\* this step delivers a message to a turn that cancel() was called on: a
\* message is delivered while every streaming turn is a cancelled one
DeliversAfterCancel ==
  /\ delivered' = delivered + 1
  /\ \A t \in TurnIds : IsStreaming(t) => WasCancelled(t)

\* C13: when cancel() was called while a turn was streaming, the next message
\* the runtime delivers to that turn makes it issue interrupt() and return
\* exactly { success: false, error: 'Cancelled' }.
C13_CancelledTurnReturnsCancelled ==
  [][DeliversAfterCancel =>
       \E t \in TurnIds :
         /\ IsStreaming(t)
         /\ turns'[t].status = "done"
         /\ turns'[t].interrupts = 1
         /\ turns'[t].result = Failure(CancelledError)]_vars

\* C14: the cancellation check precedes all processing: a message delivered
\* to a turn after cancel() does not update sessionId, is not appended to the
\* text of the turn and triggers no progress callback.
C14_NoProcessingAfterCancel ==
  [][DeliversAfterCancel =>
       /\ sessionId' = sessionId
       /\ \A t \in TurnIds :
            /\ turns'[t].responseText \in {turns[t].responseText, <<>>}
            /\ turns'[t].progress \in {turns[t].progress, <<>>}]_vars

\* C15: at most one turn is outstanding, and the cancellation token is the one
\* of that turn.
C15_SingleActiveTurn ==
  /\ Cardinality({t \in TurnIds : IsStreaming(t)}) <= 1
  /\ abortController # 0 => IsStreaming(abortController)

\* what a call of continueConversation / refineInstruction made now could
\* do: every next call t and every input of it
CallInputs ==
  {in \in [t : {u \in TurnIds : IsNextCall(u)}, cb : BOOLEAN,
           opens : BOOLEAN, error : ThrownValues] :
     OpeningOutcome(in.opens, in.error)}

continueNow(in) ==
  continueConversation(Service, resolvedClaudePath, in.t, in.cb, in.opens,
                       in.error)

refineNow(in) ==
  refineInstruction(Service, resolvedClaudePath, in.t, in.cb, in.opens,
                    in.error)

\* C16: cancel() can be called in every state, a second cancel() changes
\* nothing, and cancel() changes nothing but the cancellation token: it
\* aborts the controller it finds, if any, and forgets it.
C16_CancelTotalIdempotent ==
  LET after == cancel(Service)
  IN /\ after.sessionId = sessionId
     /\ after.abortController = 0
     /\ after.aborted = aborted \cup (IF abortController = 0 THEN {}
                                      ELSE {abortController})
     /\ cancel(after) = after
     /\ ENABLED Cancel

C16_Witness ==
  /\ sessionId # NoSession
  /\ abortController = 0
  /\ \E t \in aborted : IsStreaming(t)

\* C17: continueConversation called while no session id is stored returns a
\* failure whose reason contains 'No active conversation', makes no runtime
\* call, leaves sessionId alone and creates no cancellation token.
C17_ContinueWithoutSession ==
  sessionId = NoSession =>
    \A in \in CallInputs :
      LET r == continueNow(in)
      IN /\ r.turn.status = "done"
         /\ ~r.turn.result.success
         /\ HasPart(r.turn.result.error, Lit("No active conversation"))
         /\ r.turn.queries = 0
         /\ r.svc = Service

C17_Witness ==
  \E t \in TurnIds :
    /\ turns[t].kind = "continue"
    /\ turns[t].result = Failure(NoConversationError)
    /\ \E u \in TurnIds : u < t /\ turns[u].queries = 1

\* C18: a turn submitted with continueConversation after a SystemInit with id
\* s was observed carries resume = s in the options of its runtime call; a
\* turn of refineInstruction never carries resume.
C18_ResumeCarriesSession ==
  \A in \in CallInputs :
    /\ continueNow(in).turn.queries = 1 =>
         /\ lastInit # NoSession
         /\ continueNow(in).turn.options.resume = lastInit
    /\ refineNow(in).turn.options.resume = NoSession

C18_Witness ==
  \E t, u \in TurnIds :
    /\ u < t
    /\ turns[u].kind = "refine" /\ turns[u].queries = 1
    /\ turns[t].kind = "continue" /\ turns[t].queries = 1
    /\ turns[t].options.resume \in SessionIds

\* C19: sessionId is null or the session id of the most recent SystemInit
\* consumed since the last reset or new-conversation start.
C19_SessionIdFromInit == sessionId \in {NoSession, lastInit}

C19_Witness ==
  /\ sessionId = "s2"
  /\ delivered = 2

\* C20: sessionId is cleared only by resetConversation() and by
\* refineInstruction: continueConversation, cancel(), the end of a turn
\* (returned or thrown) and a cancelled turn leave it as it is, and a message
\* of the stream never clears it.
C20_SessionClearedOnlyByReset ==
  /\ cancel(Service).sessionId = sessionId
  /\ \A in \in CallInputs : continueNow(in).svc.sessionId = sessionId
  /\ \A t \in TurnIds :
       IsStreaming(t) =>
         /\ onStreamEnd(Service, turns[t]).svc.sessionId = sessionId
         /\ \A e \in ThrownValues :
              onStreamThrow(Service, turns[t], e).svc.sessionId = sessionId
         /\ \A m \in Messages :
              LET r == onMessage(Service, turns[t], m)
              IN /\ ~r.consumed => r.svc.sessionId = sessionId
                 /\ sessionId # NoSession => r.svc.sessionId # NoSession

C20_Witness ==
  /\ sessionId # NoSession
  /\ \E t \in TurnIds :
       turns[t].kind = "continue" /\ IsDone(t) /\ turns[t].queries = 1

(***************************************************************************)
(* Claims on the errors of a turn                                          *)
(***************************************************************************)
\* what a call made now could return: refineInstruction, and
\* continueConversation where a session id is stored
CallsNow(in) ==
  {refineNow(in)} \cup (IF sessionId = NoSession THEN {} ELSE {continueNow(in)})

RootUnknown == vaultPath = <<>>
ExecutableUnknown == ~resolvedClaudePath /\ ~cliInstalled

\* C21: a turn whose root cannot be determined, or whose executable cannot be
\* located, fails before any runtime call and before a cancellation token is
\* created, with reason 'Could not determine vault path' (checked first) or
\* 'Claude CLI not found...'.
C21_ConfigurationErrors ==
  (RootUnknown \/ ExecutableUnknown) =>
    \A in \in CallInputs : \A r \in CallsNow(in) :
      /\ r.turn.status = "done"
      /\ ~r.turn.result.success
      /\ r.turn.queries = 0
      /\ r.svc.abortController = abortController
      /\ r.svc.aborted = aborted
      /\ IF RootUnknown
         THEN r.turn.result.error = <<Lit("Could not determine vault path")>>
         ELSE HasPart(r.turn.result.error, Lit("Claude CLI not found"))

C21_Witness ==
  /\ RootUnknown
  /\ ExecutableUnknown
  /\ \E t \in TurnIds : turns[t].result = Failure(NoVaultError)

\* the reason of a failure for a thrown value
Verbatim(thrown) ==
  IF thrown.isError THEN <<Lit(thrown.message)>> ELSE <<Lit("Unknown error")>>

\* C22: if opening or consuming the streamed runtime call throws, the turn
\* returns success=false with the message of the thrown error verbatim
\* ('Unknown error' for a value that is not an Error), as a returned result,
\* and the cancellation token is cleared.
C22_ThrownErrorsReturned ==
  /\ \A in \in CallInputs : \A r \in CallsNow(in) :
       (r.turn.queries = 1 /\ ~in.opens) =>
         /\ r.turn.status = "done"
         /\ r.turn.result = Failure(Verbatim(in.error))
         /\ r.svc.abortController = 0
  /\ \A t \in TurnIds : \A e \in ThrownValues :
       IsStreaming(t) =>
         LET r == onStreamThrow(Service, turns[t], e)
         IN /\ r.turn.status = "done"
            /\ r.turn.result = Failure(Verbatim(e))
            /\ r.svc.abortController = 0

C22_Witness ==
  /\ abortController = 0
  /\ \E t \in TurnIds :
       IsDone(t) /\ turns[t].result = Failure(<<Lit("boom")>>)
  /\ \E t \in TurnIds :
       IsDone(t) /\ turns[t].result = Failure(<<Lit("Unknown error")>>)

ErrorEvents == {m \in Messages : m.type = "error"}

\* C23: an Error event of the runtime ends the turn with a failure whose
\* reason is the message of the event verbatim; it is never ignored.
C23_ErrorEventFailsTurn ==
  \A t \in TurnIds : \A m \in ErrorEvents :
    IsStreaming(t) =>
      LET r == onMessage(Service, turns[t], m)
      IN /\ r.turn.status = "done"
         /\ r.turn.result = Failure(<<Lit(m.error)>>)

\* C24: no retries: every call opens the streamed runtime call at most once,
\* and not at all on a configuration error or a missing session id.
C24_NoRetries ==
  \A t \in TurnIds :
    /\ turns[t].queries <= 1
    /\ turns[t].result.error \in
         {NoVaultError, NoCliError, NoConversationError} =>
           turns[t].queries = 0

C24_Witness ==
  /\ \E t \in TurnIds :
       IsDone(t) /\ turns[t].queries = 1 /\ ~turns[t].result.success
  /\ \E t \in TurnIds :
       IsDone(t) /\ turns[t].queries = 0

\* C26: with a progress callback, every event that contributes text triggers
\* exactly one callback, in arrival order, carrying the parse of all the text
\* accumulated so far; an event without text triggers none; the normal end of
\* the stream returns the parse of the full text.
C26_ProgressUpdates ==
  \A t \in TurnIds :
    IsStreaming(t) =>
      LET turn == turns[t]
      IN /\ turn.progress # <<>> =>
              turn.progress[Len(turn.progress)] =
                parseResponse(turn.responseText)
         /\ ~turn.onProgress => turn.progress = <<>>
         /\ \A m \in Messages :
              LET r == onMessage(Service, turn, m)
                  text == extractTextFromMessage(m)
              IN r.consumed =>
                   r.turn.progress =
                     IF text # <<>> /\ turn.onProgress
                     THEN turn.progress \o
                            <<parseResponse(turn.responseText \o text)>>
                     ELSE turn.progress
         /\ onStreamEnd(Service, turn).turn.result =
              parseResponse(turn.responseText)

C26_Witness ==
  \E t \in TurnIds :
    /\ IsStreaming(t) /\ Len(turns[t].progress) = 2
    /\ turns[t].progress[1] = Clarification(<<"a">>)
    /\ turns[t].progress[2] = Success(<<"a">>)

(***************************************************************************)
(* parseResponse as a state machine: Init draws a response text, the       *)
(* action applies parseResponse to it.                                     *)
(***************************************************************************)

Pieces == {OpenTag, CloseTag, "a", Space}

RECURSIVE TextsOfLen(_)
TextsOfLen(n) ==
  IF n = 0 THEN {<<>>}
  ELSE {Append(t, p) : t \in TextsOfLen(n - 1), p \in Pieces}

ResponseTexts == UNION {TextsOfLen(n) : n \in 0..MaxTextLen}

InitParse ==
  /\ fs = FsPlain
  /\ vaultPath = <<>>
  /\ candidatePath = <<>>
  /\ withinResult = FALSE
  /\ pathChecked = FALSE
  /\ exportPaths = {}
  /\ blockedCommands = <<>>
  /\ enableBlocklist = FALSE
  /\ hasOnEditBlocked = FALSE
  /\ phase = "idle"
  /\ call = NoCall
  /\ hook = "none"
  /\ outcome = NoOutcome
  /\ trace = <<>>
  /\ SessionUnused
  /\ TransformUnused
  /\ parseText \in ResponseTexts
  /\ parsed = NoResult

ParseResponse ==
  /\ parsed = NoResult
  /\ parsed' = parseResponse(parseText)
  /\ UNCHANGED <<envVars, pathVars, ctxVars, hookVars, sessionVars,
                 parseText, transformVars>>

\* responseText += text; onProgress(this.parseResponse(responseText)): more
\* text arrives after a parse, and the whole text is parsed again
AppendText ==
  /\ parsed # NoResult
  /\ Len(parseText) <= MaxTextLen
  /\ \E piece \in Pieces :
       /\ parseText' = Append(parseText, piece)
       /\ parsed' = parseResponse(parseText')
  /\ UNCHANGED <<envVars, pathVars, ctxVars, hookVars, sessionVars,
                 transformVars>>

NextParse == ParseResponse \/ AppendText

SpecParse == InitParse /\ [][NextParse]_vars

\* the delimited block that the parse takes: the leftmost opening tag that a
\* closing tag follows, and the first closing tag after it
IsFirstBlock(t, i, j) ==
  /\ i < j /\ t[i] = OpenTag /\ t[j] = CloseTag
  /\ \A k \in (i + 1)..(j - 1) : t[k] # CloseTag
  /\ \A k \in 1..(i - 1) :
       t[k] = OpenTag => \A l \in (k + 1)..Len(t) : t[l] # CloseTag

HasBlock(t) ==
  \E i, j \in 1..Len(t) : i < j /\ t[i] = OpenTag /\ t[j] = CloseTag

\* u is t without its leading and trailing white space
IsTrimOf(u, t) ==
  \E a, b \in 0..Len(t) :
    /\ a + b <= Len(t)
    /\ u = SubSeq(t, a + 1, Len(t) - b)
    /\ \A k \in 1..a : t[k] = Space
    /\ \A k \in (Len(t) - b + 1)..Len(t) : t[k] = Space
    /\ u # <<>> => u[1] # Space /\ u[Len(u)] # Space

\* C25: the parse of the accumulated text is a total three-way
\* classification: a delimited block gives success with the trimmed contents
\* of the first block (possibly empty, the surrounding text ignored);
\* otherwise a non-blank text gives success with the trimmed text as
\* clarification and no payload; otherwise the failure 'Empty response'.
C25_ThreeWayParse ==
  parsed # NoResult =>
    IF HasBlock(parseText)
    THEN \E i, j \in 1..Len(parseText) :
           /\ IsFirstBlock(parseText, i, j)
           /\ parsed.success /\ parsed.has = "refinedInstruction"
           /\ parsed.error = <<>>
           /\ IsTrimOf(parsed.text, SubSeq(parseText, i + 1, j - 1))
    ELSE IF \E k \in 1..Len(parseText) : parseText[k] # Space
    THEN /\ parsed.success /\ parsed.has = "clarification"
         /\ parsed.error = <<>>
         /\ parsed.text # <<>> /\ IsTrimOf(parsed.text, parseText)
    ELSE /\ ~parsed.success /\ parsed.has = "error"
         /\ parsed.error = <<Lit("Empty response")>>

\* an empty block between other text, and a block after an unclosed tag
C25_Witness ==
  /\ parsed # NoResult
  /\ parsed.success /\ parsed.has = "refinedInstruction"
  /\ \/ parseText = <<"a", OpenTag, CloseTag, "a">> /\ parsed.text = <<>>
     \/ parseText = <<OpenTag, "a", CloseTag, CloseTag>>
          /\ parsed.text = <<"a">>

(***************************************************************************)
(* transformSDKMessage: the messages of the SDK, the chunks it yields.     *)
(* A JavaScript value is a string (Str), undefined or a missing key        *)
(* (NoVal), null (Null), or another truthy value such as an object (Other).*)
(***************************************************************************)

Null == [kind |-> "null", s |-> <<>>]
\* {}
EmptyObject == [kind |-> "other", s |-> <<"{", "}">>]
Object(s) == [kind |-> "other", s |-> s]

\* a ?? b
Coalesce(a, b) == IF a.kind \in {"missing", "null"} THEN b ELSE a

\* typeof v === 'string' ? v : JSON.stringify(v, null, 2): a string is kept,
\* an object becomes its JSON text, null becomes 'null', undefined stays
\* undefined
stringified(v) ==
  CASE v.kind = "string" -> v
    [] v.kind = "other" -> Str(<<"json">> \o v.s)
    [] v.kind = "null" -> Str(<<"null">>)
    [] OTHER -> NoVal

\* the decimal digits of a small number
Digit(n) == <<"0", "1", "2", "3", "4", "5", "6", "7", "8", "9">>[n + 1]

\* `tool-${Date.now()}-${Math.random().toString(36).substring(2, 11)}`
assistantToolId(draw) ==
  Str(<<"tool-", Digit(draw.now), "-", Digit(draw.random)>>)
\* `tool-${Date.now()}`
streamToolId(draw) == Str(<<"tool-", Digit(draw.now)>>)

\* a content block; type "null" is a null entry of the content array
NoBlock ==
  [type |-> "", thinking |-> NoVal, text |-> NoVal, id |-> NoVal,
   name |-> NoVal, input |-> NoVal, tool_use_id |-> NoVal,
   content |-> NoVal, is_error |-> FALSE]
NullBlock == [NoBlock EXCEPT !.type = "null"]
ThinkingBlock(thinking) ==
  [NoBlock EXCEPT !.type = "thinking", !.thinking = thinking]
TextBlock(text) == [NoBlock EXCEPT !.type = "text", !.text = text]
ToolUseBlock(id, name, input) ==
  [NoBlock EXCEPT !.type = "tool_use", !.id = id, !.name = name,
                  !.input = input]
ToolResultBlock(tool_use_id, content, is_error) ==
  [NoBlock EXCEPT !.type = "tool_result", !.tool_use_id = tool_use_id,
                  !.content = content, !.is_error = is_error]

\* message.event of a stream_event
NoDelta == [type |-> "", thinking |-> NoVal, text |-> NoVal]
NoEvent == [type |-> "", content_block |-> NoBlock, delta |-> NoDelta]
ContentBlockStart(content_block) ==
  [NoEvent EXCEPT !.type = "content_block_start",
                  !.content_block = content_block]
ThinkingDelta(thinking) ==
  [NoEvent EXCEPT !.type = "content_block_delta",
                  !.delta = [NoDelta EXCEPT !.type = "thinking_delta",
                                            !.thinking = thinking]]
TextDelta(text) ==
  [NoEvent EXCEPT !.type = "content_block_delta",
                  !.delta = [NoDelta EXCEPT !.type = "text_delta",
                                            !.text = text]]

\* an SDKMessage; isArray says whether message.message.content is an array,
\* content are its entries
NoSDKMessage ==
  [type |-> "", subtype |-> "", session_id |-> NoVal,
   parent_tool_use_id |-> NoVal, isArray |-> FALSE, content |-> <<>>,
   blocked |-> NoVal, blockReason |-> NoVal, tool_use_result |-> NoVal,
   event |-> NoEvent, error |-> NoVal]
SystemMessage(subtype, session_id) ==
  [NoSDKMessage EXCEPT !.type = "system", !.subtype = subtype,
                       !.session_id = session_id]
AssistantMessage(parent, content) ==
  [NoSDKMessage EXCEPT !.type = "assistant", !.parent_tool_use_id = parent,
                       !.isArray = TRUE, !.content = content]
UserMessage(parent, tool_use_result, content) ==
  [NoSDKMessage EXCEPT !.type = "user", !.parent_tool_use_id = parent,
                       !.tool_use_result = tool_use_result,
                       !.isArray = TRUE, !.content = content]
BlockedMessage(message, blocked, blockReason) ==
  [message EXCEPT !.blocked = blocked, !.blockReason = blockReason]
StreamEventMessage(parent, event) ==
  [NoSDKMessage EXCEPT !.type = "stream_event",
                       !.parent_tool_use_id = parent, !.event = event]
ResultMessage == [NoSDKMessage EXCEPT !.type = "result"]
ErrorMessage(parent, error) ==
  [NoSDKMessage EXCEPT !.type = "error", !.parent_tool_use_id = parent,
                       !.error = error]

\* a TransformEvent: a StreamChunk or a SessionInitEvent; a key the object
\* literal does not set is NoVal
NoChunk ==
  [type |-> "", content |-> NoVal, id |-> NoVal, name |-> NoVal,
   input |-> NoVal, isError |-> FALSE, sessionId |-> NoVal,
   parentToolUseId |-> NoVal]
\* the generator stops with a TypeError instead of yielding
TypeErrorThrown == [NoChunk EXCEPT !.type = "TypeError"]

\* faulty variant: the name of the runtime is dropped
assistantBlock_DropsName(block, parentToolUseId, draw) ==
  IF block.type = "thinking" /\ truthy(block.thinking)
  THEN <<[NoChunk EXCEPT !.type = "thinking", !.content = block.thinking,
                         !.parentToolUseId = parentToolUseId]>>
  ELSE IF block.type = "text" /\ truthy(block.text)
  THEN <<[NoChunk EXCEPT !.type = "text", !.content = block.text,
                         !.parentToolUseId = parentToolUseId]>>
  ELSE IF block.type = "tool_use"
  THEN <<[NoChunk EXCEPT !.type = "tool_use",
                         !.id = Or(block.id, assistantToolId(draw)),
                         !.name = Str(<<"unknown">>),
                         !.input = Or(block.input, EmptyObject),
                         !.parentToolUseId = parentToolUseId]>>
  ELSE <<>>

\* one entry of the content of an assistant message (lines 51-66)
assistantBlock(block, parentToolUseId, draw) ==
  IF block.type = "thinking" /\ truthy(block.thinking)
  THEN <<[NoChunk EXCEPT !.type = "thinking", !.content = block.thinking,
                         !.parentToolUseId = parentToolUseId]>>
  ELSE IF block.type = "text" /\ truthy(block.text)
  THEN <<[NoChunk EXCEPT !.type = "text", !.content = block.text,
                         !.parentToolUseId = parentToolUseId]>>
  ELSE IF block.type = "tool_use"
  THEN <<[NoChunk EXCEPT !.type = "tool_use",
                         !.id = Or(block.id, assistantToolId(draw)),
                         !.name = Or(block.name, Str(<<"unknown">>)),
                         !.input = Or(block.input, EmptyObject),
                         !.parentToolUseId = parentToolUseId]>>
  ELSE <<>>

\* for (const block of message.message.content), assistant; reading the type
\* of a null entry throws
RECURSIVE assistantBlocks(_, _, _)
assistantBlocks(content, parentToolUseId, draws) ==
  IF content = <<>> THEN <<>>
  ELSE IF Head(content).type = "null" THEN <<TypeErrorThrown>>
  ELSE assistantBlock(Head(content), parentToolUseId, Head(draws))
         \o assistantBlocks(Tail(content), parentToolUseId, Tail(draws))

\* one entry of the content of a user message (lines 94-103)
userBlock(block, message, parentToolUseId) ==
  IF block.type = "tool_result"
  THEN <<[NoChunk EXCEPT
            !.type = "tool_result",
            !.id = Or(block.tool_use_id,
                      Or(message.parent_tool_use_id, EmptyStr)),
            !.content = stringified(block.content),
            !.isError = block.is_error,
            !.parentToolUseId = parentToolUseId]>>
  ELSE <<>>

RECURSIVE userBlocks(_, _, _)
userBlocks(content, message, parentToolUseId) ==
  IF content = <<>> THEN <<>>
  ELSE IF Head(content).type = "null" THEN <<TypeErrorThrown>>
  ELSE userBlock(Head(content), message, parentToolUseId)
         \o userBlocks(Tail(content), message, parentToolUseId)

\* the top-level tool result of a user message (lines 80-90)
topLevelResult(message, parentToolUseId) ==
  IF message.tool_use_result.kind # "missing"
       /\ truthy(message.parent_tool_use_id)
  THEN <<[NoChunk EXCEPT
            !.type = "tool_result",
            !.id = message.parent_tool_use_id,
            !.content = stringified(message.tool_use_result),
            !.isError = FALSE,
            !.parentToolUseId = parentToolUseId]>>
  ELSE <<>>

\* case 'stream_event' (lines 109-136)
streamEvent(event, parentToolUseId, draw) ==
  LET isStart == event.type = "content_block_start"
      content_block == event.content_block
      delta == event.delta
  IN IF isStart /\ content_block.type = "tool_use"
     THEN <<[NoChunk EXCEPT !.type = "tool_use",
                            !.id = Or(content_block.id, streamToolId(draw)),
                            !.name = Or(content_block.name, Str(<<"unknown">>)),
                            !.input = Or(content_block.input, EmptyObject),
                            !.parentToolUseId = parentToolUseId]>>
     ELSE IF isStart /\ content_block.type = "thinking"
     THEN IF truthy(content_block.thinking)
          THEN <<[NoChunk EXCEPT !.type = "thinking",
                                 !.content = content_block.thinking,
                                 !.parentToolUseId = parentToolUseId]>>
          ELSE <<>>
     ELSE IF isStart /\ content_block.type = "text"
     THEN IF truthy(content_block.text)
          THEN <<[NoChunk EXCEPT !.type = "text",
                                 !.content = content_block.text,
                                 !.parentToolUseId = parentToolUseId]>>
          ELSE <<>>
     ELSE IF event.type = "content_block_delta"
     THEN IF delta.type = "thinking_delta" /\ truthy(delta.thinking)
          THEN <<[NoChunk EXCEPT !.type = "thinking",
                                 !.content = delta.thinking,
                                 !.parentToolUseId = parentToolUseId]>>
          ELSE IF delta.type = "text_delta" /\ truthy(delta.text)
          THEN <<[NoChunk EXCEPT !.type = "text",
                                 !.content = delta.text,
                                 !.parentToolUseId = parentToolUseId]>>
          ELSE <<>>
     ELSE <<>>

\* the tool results of a user message, top level then nested (lines 79-106)
toolResults(message, parentToolUseId) ==
  topLevelResult(message, parentToolUseId)
    \o (IF message.isArray
        THEN userBlocks(message.content, message, parentToolUseId)
        ELSE <<>>)

\* the chunk of a blocked user message (lines 73-76)
blockedChunk(message) ==
  [NoChunk EXCEPT !.type = "blocked", !.content = message.blockReason]

\* faulty variant: no break after the blocked chunk
userMessage_NoBreak(message, parentToolUseId) ==
  IF truthy(message.blocked) /\ truthy(message.blockReason)
  THEN <<blockedChunk(message)>> \o toolResults(message, parentToolUseId)
  ELSE toolResults(message, parentToolUseId)

\* case 'user' (lines 70-107)
userMessage(message, parentToolUseId) ==
  IF truthy(message.blocked) /\ truthy(message.blockReason)
  THEN <<blockedChunk(message)>>
  ELSE toolResults(message, parentToolUseId)

\* faulty variant: every system message with a session id signals it
systemMessage_AnySubtype(message) ==
  IF truthy(message.session_id)
  THEN <<[NoChunk EXCEPT !.type = "session_init",
                         !.sessionId = message.session_id]>>
  ELSE <<>>

\* case 'system' (lines 41-47)
systemMessage(message) ==
  IF message.subtype = "init" /\ truthy(message.session_id)
  THEN <<[NoChunk EXCEPT !.type = "session_init",
                         !.sessionId = message.session_id]>>
  ELSE <<>>

\* transformSDKMessage(message): the chunks the generator yields, in order;
\* draws[k] is what Date.now() and Math.random() return at entry k
transformSDKMessage(message, draws) ==
  LET parentToolUseId == Coalesce(message.parent_tool_use_id, Null)
  IN CASE message.type = "system" -> systemMessage(message)
       [] message.type = "assistant" ->
            IF message.isArray
            THEN assistantBlocks(message.content, parentToolUseId, draws)
            ELSE <<>>
       [] message.type = "user" -> userMessage(message, parentToolUseId)
       [] message.type = "stream_event" ->
            streamEvent(message.event, parentToolUseId, Head(draws))
       [] message.type = "error" ->
            IF truthy(message.error)
            THEN <<[NoChunk EXCEPT !.type = "error",
                                   !.content = message.error]>>
            ELSE <<>>
       [] OTHER -> <<>>

\* isSessionInitEvent(event), isStreamChunk(event)
isSessionInitEvent(chunk) == chunk.type = "session_init"
isStreamChunk(chunk) == chunk.type # "session_init"

(***************************************************************************)
(* The transformer as a state machine: the consumer applies                *)
(* transformSDKMessage to the messages of the SDK one after the other.     *)
(***************************************************************************)

ParentP == Str(<<"p">>)
ToolT == Str(<<"t">>)
ToolU == Str(<<"u">>)
TextA == Str(<<"a">>)
TextH == Str(<<"h">>)
TextR == Str(<<"r">>)
ReadName == Str(<<"Read">>)
Denied == Str(<<"denied">>)
Flag == Object(<<"true">>)

Parents == {NoVal, ParentP}

AssistantContents ==
  {<<>>,
   <<ThinkingBlock(TextH), TextBlock(TextA)>>,
   <<TextBlock(TextA), ToolUseBlock(ToolT, ReadName, Object(<<"x">>))>>,
   <<[NoBlock EXCEPT !.type = "image"], TextBlock(TextA)>>,
   <<NullBlock, TextBlock(TextA)>>}

UserMessages ==
  {UserMessage(ParentP, TextR, <<>>),
   UserMessage(ParentP, TextR, <<ToolResultBlock(ToolT, TextR, FALSE)>>),
   UserMessage(ParentP, Object(<<"x">>), <<ToolResultBlock(NoVal, NoVal, FALSE)>>),
   UserMessage(ParentP, Null, <<TextBlock(TextA)>>),
   UserMessage(NoVal, TextR, <<>>),
   UserMessage(NoVal, NoVal,
               <<ToolResultBlock(ToolT, TextR, FALSE),
                 ToolResultBlock(ToolU, Object(<<"x">>), TRUE)>>)}

BlockedMessages ==
  {BlockedMessage(UserMessage(NoVal, NoVal, <<>>), Flag, Denied),
   BlockedMessage(UserMessage(ParentP, TextR,
                              <<ToolResultBlock(ToolT, TextR, TRUE)>>),
                  Flag, Denied),
   BlockedMessage(UserMessage(NoVal, NoVal,
                              <<ToolResultBlock(ToolT, TextR, TRUE)>>),
                  Flag, EmptyStr),
   BlockedMessage(UserMessage(NoVal, NoVal, <<>>), NoVal, Denied)}

StreamEvents ==
  {ContentBlockStart(ToolUseBlock(ToolT, ReadName, NoVal)),
   ContentBlockStart(ToolUseBlock(NoVal, NoVal, NoVal)),
   ContentBlockStart(ThinkingBlock(TextH)),
   ContentBlockStart(TextBlock(TextA)),
   ContentBlockStart(TextBlock(EmptyStr)),
   ThinkingDelta(TextH), TextDelta(TextA), TextDelta(EmptyStr),
   [NoEvent EXCEPT !.type = "message_stop"], NoEvent}

SDKMessages ==
  {SystemMessage("init", Str(<<"s">>)), SystemMessage("init", NoVal),
   SystemMessage("status", Str(<<"s">>))}
  \cup {AssistantMessage(parent, content) :
          parent \in Parents, content \in AssistantContents}
  \cup {[AssistantMessage(NoVal, <<>>) EXCEPT !.isArray = FALSE],
        AssistantMessage(NoVal, <<TextBlock(EmptyStr), ThinkingBlock(TextH)>>),
        AssistantMessage(NoVal, <<ToolUseBlock(NoVal, NoVal, NoVal),
                                  ToolUseBlock(NoVal, ReadName, NoVal)>>)}
  \cup UserMessages \cup BlockedMessages
  \cup {StreamEventMessage(NoVal, event) : event \in StreamEvents}
  \cup {StreamEventMessage(ParentP, TextDelta(TextA)),
        StreamEventMessage(ParentP,
                           ContentBlockStart(ToolUseBlock(NoVal, NoVal, NoVal)))}
  \cup {ResultMessage, [NoSDKMessage EXCEPT !.type = "keep_alive"]}
  \cup {ErrorMessage(NoVal, Str(<<"failed">>)),
        ErrorMessage(ParentP, Str(<<"failed">>)), ErrorMessage(NoVal, NoVal)}

\* the outcomes of Math.random()
Randoms == {1, 2}

\* the longest content array of the messages above
DrawCount ==
  CHOOSE n \in 1..9 :
    /\ \A m \in SDKMessages : Len(m.content) <= n
    /\ \E m \in SDKMessages : Len(m.content) = n

\* entry k of the message reads Date.now() (lines 59 and 115)
ReadsClock(message, k) ==
  \/ /\ message.type = "assistant" /\ message.isArray
     /\ k <= Len(message.content)
     /\ message.content[k].type = "tool_use"
     /\ ~truthy(message.content[k].id)
  \/ /\ message.type = "stream_event" /\ k = 1
     /\ message.event.type = "content_block_start"
     /\ message.event.content_block.type = "tool_use"
     /\ ~truthy(message.event.content_block.id)

\* what the clock and the random generator may return while the message is
\* transformed, from time from on: the clock never goes back
Draws(message, from) ==
  {d \in [1..DrawCount -> [now : from..MaxClock, random : Randoms]] :
     \A k \in 1..DrawCount :
       LET before == IF k = 1 THEN from ELSE d[k - 1].now
       IN IF ReadsClock(message, k) THEN d[k].now >= before
          ELSE d[k].now = before /\ d[k].random = 1}

InitTransform ==
  /\ fs = FsPlain
  /\ vaultPath = <<>>
  /\ candidatePath = <<>>
  /\ withinResult = FALSE
  /\ pathChecked = FALSE
  /\ exportPaths = {}
  /\ blockedCommands = <<>>
  /\ enableBlocklist = FALSE
  /\ hasOnEditBlocked = FALSE
  /\ phase = "idle"
  /\ call = NoCall
  /\ hook = "none"
  /\ outcome = NoOutcome
  /\ trace = <<>>
  /\ SessionUnused
  /\ ParseUnused
  /\ TransformUnused

\* for (const event of transformSDKMessage(message)) of the consumer
Transform ==
  /\ Len(sdkMessages) < MaxEvents
  /\ \E message \in SDKMessages : \E d \in Draws(message, now) :
       /\ sdkMessages' = Append(sdkMessages, message)
       /\ chunks' = Append(chunks, transformSDKMessage(message, d))
       /\ now' = d[DrawCount].now
  /\ UNCHANGED <<envVars, pathVars, ctxVars, hookVars, sessionVars, parseVars>>

NextTransform == Transform

SpecTransform == InitTransform /\ [][NextTransform]_vars

(***************************************************************************)
(* Claims on the transformer                                               *)
(***************************************************************************)

EventIds == 1..Len(sdkMessages)

GeneratorThrew(cs) == \E k \in 1..Len(cs) : cs[k].type = "TypeError"

\* transforming the same message again gives the same chunks, whatever the
\* clock and the random generator return then
SameOutputOnReplay ==
  \A i \in EventIds : \A d \in Draws(sdkMessages[i], 0) :
    transformSDKMessage(sdkMessages[i], d) = chunks[i]

\* chunk c is what content block b becomes
FromBlock(c, b) ==
  /\ c.type = b.type
  /\ c.type = "thinking" => c.content = b.thinking
  /\ c.type = "text" => c.content = b.text
  /\ c.type = "tool_use" => (truthy(b.id) => c.id = b.id)
  /\ c.type = "tool_result" => c.content = stringified(b.content)

\* the chunks of an assistant message follow the order of its content blocks
InBlockOrder ==
  \A i \in EventIds :
    LET m == sdkMessages[i]
        cs == chunks[i]
    IN (m.type = "assistant" /\ m.isArray /\ ~GeneratorThrew(cs)) =>
         \E f \in [1..Len(cs) -> 1..Len(m.content)] :
           /\ \A k \in 1..Len(cs) : FromBlock(cs[k], m.content[f[k]])
           /\ \A k, l \in 1..Len(cs) : k < l => f[k] < f[l]

\* C27: transformSDKMessage applied event by event is deterministic (the same
\* input sequence gives the same output sequence, generated ids included)
\* and order-preserving (by event, and by content block within an event).
C27_DeterministicInOrder == SameOutputOnReplay /\ InBlockOrder

IsToolResult(c) == c.type = "tool_result"
IsToolResultBlock(b) == b.type = "tool_result"

\* the blocked marker of a user message: _blocked with its _blockReason
CarriesBlockedMarker(m) ==
  m.type = "user" /\ truthy(m.blocked) /\ truthy(m.blockReason)

C29_OneToolResultPerEntry ==
  \A i \in EventIds :
    LET m == sdkMessages[i]
        nested == SelectSeq(m.content, IsToolResultBlock)
        results == SelectSeq(chunks[i], IsToolResult)
        topLevel == m.tool_use_result.kind # "missing"
                      /\ truthy(m.parent_tool_use_id)
    IN (m.type = "user" /\ ~CarriesBlockedMarker(m)
          /\ ~GeneratorThrew(chunks[i])) =>
         IF nested # <<>>
         THEN /\ Len(results) = Len(nested)
              /\ \A k \in 1..Len(nested) : FromBlock(results[k], nested[k])
         ELSE Len(results) = (IF topLevel THEN 1 ELSE 0)

\* C30: every increment other than the session-identity signal carries
\* parentToolUseId equal to the parent_tool_use_id of its event, or null (no
\* value) when the event has none.
C30_ParentPropagated ==
  \A i \in EventIds : \A k \in 1..Len(chunks[i]) :
    LET m == sdkMessages[i]
        c == chunks[i][k]
    IN (isStreamChunk(c) /\ c.type # "TypeError") =>
         IF m.parent_tool_use_id.kind \in {"missing", "null"}
         THEN c.parentToolUseId \in {Null, NoVal}
         ELSE c.parentToolUseId = m.parent_tool_use_id

IsUIIncrement(c) == isStreamChunk(c) /\ c.type # "TypeError"

\* C31: a system event yields exactly one session-identity signal carrying
\* its session id when its subtype is init and a session id is present, and
\* nothing otherwise; neither a system event nor a Result event ever yields a
\* UI increment.
C31_SystemAndResultEvents ==
  \A i \in EventIds :
    LET m == sdkMessages[i]
    IN /\ m.type = "system" =>
            IF m.subtype = "init" /\ m.session_id.kind = "string"
                 /\ m.session_id.s # <<>>
            THEN /\ Len(chunks[i]) = 1
                 /\ chunks[i][1].type = "session_init"
                 /\ chunks[i][1].sessionId = m.session_id
            ELSE chunks[i] = <<>>
       /\ m.type \in {"system", "result"} =>
            SelectSeq(chunks[i], IsUIIncrement) = <<>>

\* an init with a session id, a system event of another subtype and a Result
C31_Witness ==
  /\ Len(sdkMessages) = 2
  /\ \/ /\ sdkMessages[1] = SystemMessage("init", Str(<<"s">>))
        /\ Len(chunks[1]) = 1 /\ chunks[1][1].sessionId = Str(<<"s">>)
        /\ sdkMessages[2] = SystemMessage("status", Str(<<"s">>))
        /\ chunks[2] = <<>>
     \/ /\ sdkMessages[1] = SystemMessage("init", Str(<<"s">>))
        /\ Len(chunks[1]) = 1 /\ chunks[1][1].sessionId = Str(<<"s">>)
        /\ sdkMessages[2] = ResultMessage
        /\ chunks[2] = <<>>

\* a content block that becomes an increment: a thinking block with its
\* thinking, a text block with its text, a tool_use block
Recognised(b) ==
  \/ b.type = "thinking" /\ b.thinking.kind = "string" /\ b.thinking.s # <<>>
  \/ b.type = "text" /\ b.text.kind = "string" /\ b.text.s # <<>>
  \/ b.type = "tool_use"

IsGiven(v) == v.kind \notin {"missing", "null"} /\ v # EmptyStr

ToolUsePositions ==
  {p \in EventIds \X (1..DrawCount) :
     p[2] <= Len(chunks[p[1]]) /\ chunks[p[1]][p[2]].type = "tool_use"}

\* an id the transformer made up
IsSyntheticId(id) == id.kind = "string" /\ id.s # <<>> /\ id.s[1] = "tool-"

\* C33: a ToolUse increment whose block has no id gets a synthetic id that is
\* unique in the turn: it is the id of no other ToolUse increment, synthetic
\* or supplied by the runtime, from an assistant block or a stream event.
C33_SyntheticIdsUnique ==
  \A p, q \in ToolUsePositions :
    (p # q /\ IsSyntheticId(chunks[p[1]][p[2]].id)) =>
      chunks[p[1]][p[2]].id # chunks[q[1]][q[2]].id

\* C34: transformSDKMessage is total on malformed input: an event of unknown
\* type, with missing fields, with content that is not an array, or with
\* malformed or null content blocks never makes it raise an error.
C34_TotalOnMalformedInput ==
  \A i \in EventIds : ~GeneratorThrew(chunks[i])

(***************************************************************************)
(* Claims on the configuration, the token and the results of a turn        *)
(***************************************************************************)

\* the tools the read-only hook lets through
ReadOnlyAllowSet ==
  {n \in Tools : readOnlyHook(HookInput(n, NoCall.tool_input)).result.continue}

\* C35: every runtime call of the refine session has the root as working
\* directory, permission mode 'bypassPermissions', the read-only hook and
\* the vault restriction hook as PreToolUse hooks, and an allowedTools list
\* equal to the allow-set of the read-only hook, without Write, Edit or Bash.
C35_RuntimeCallConfigured ==
  \A t \in TurnIds :
    turns[t].queries >= 1 =>
      LET options == turns[t].options
      IN /\ options.cwd = vaultPath /\ options.cwd # <<>>
         /\ options.permissionMode = "bypassPermissions"
         /\ HasPart(options.preToolUse, "readOnlyHook")
         /\ HasPart(options.preToolUse, "vaultRestrictionHook")
         /\ options.allowedTools = ReadOnlyAllowSet
         /\ options.allowedTools \cap {"Write", "Edit", "Bash"} = {}

\* a first call and a continuation that both reached the runtime
C35_Witness ==
  /\ turns[1].queries = 1 /\ turns[1].kind = "refine"
  /\ \E t \in TurnIds : turns[t].queries = 1 /\ turns[t].kind = "continue"

\* the events of a hook invocation that act on the host: the callbacks
SideEffects(events) ==
  SelectSeq(events, LAMBDA e : e.ev \notin {"return", "readOnlyHook",
                                            "vaultRestrictionHook"})

\* C36: evaluating a hook leaves the root, the export paths and the
\* blocklist configuration unchanged; its only side effect is the
\* onEditBlocked callback; and the blocklist hook decides on the
\* configuration as it is at the invocation, rebuilt or not.
C36_HooksConsultContext ==
  [][phase = "pending" /\ phase' = "decided" =>
       /\ UNCHANGED <<fs, vaultPath, exportPaths, blockedCommands,
                      enableBlocklist, hasOnEditBlocked>>
       /\ \A k \in 1..Len(SideEffects(trace')) :
            SideEffects(trace')[k].ev = "onEditBlocked"
       /\ hook' = "blocklist" =>
            (outcome'.continue <=>
               ~isCommandBlocked(Or(call.tool_input.command, EmptyStr).s,
                                 blockedCommands, enableBlocklist))]_vars

\* the blocklist hook has denied a command under an enabled blocklist, and
\* the vault restriction hook has fired the callback
C36_Witness ==
  \/ /\ Decided("blocklist") /\ ~outcome.continue /\ enableBlocklist
  \/ /\ Decided("vaultRestriction") /\ SideEffects(trace) # <<>>

\* C37: every turn that passes the configuration checks starts with a fresh
\* token that is not aborted, so a cancel() made while idle or during an
\* earlier turn never cancels a later turn; and after a turn has terminated,
\* by a result, a cancellation or a thrown error, the session holds no token.
C37_TokenLifecycle ==
  /\ abortController # 0 => abortController \notin aborted
  /\ \A t \in aborted : turns[t].status # "none"
  /\ (\A t \in TurnIds : ~IsStreaming(t)) => abortController = 0
  /\ cancel(Service).abortController = 0
  /\ \A in \in CallInputs : \A r \in CallsNow(in) :
       r.turn.queries >= 1 =>
         /\ in.t \notin aborted /\ in.t \notin r.svc.aborted
         /\ in.t # abortController
         /\ r.svc.aborted = aborted
         /\ r.svc.abortController =
              (IF r.turn.status = "streaming" THEN in.t ELSE 0)
  /\ \A t \in TurnIds :
       IsStreaming(t) =>
         /\ onStreamEnd(Service, turns[t]).svc.abortController = 0
         /\ \A e \in ThrownValues :
              onStreamThrow(Service, turns[t], e).svc.abortController = 0
         /\ \A m \in Messages :
              LET r == onMessage(Service, turns[t], m)
              IN ~r.consumed => r.svc.abortController = 0

\* a turn streams with its own token after cancel() has aborted the token of
\* the turn before
C37_Witness ==
  /\ aborted = {1}
  /\ IsDone(1)
  /\ IsStreaming(2) /\ abortController = 2

SystemInits == {m \in Messages : IsSystemInit(m)}

\* C38: after resetConversation() the stored session id stays null until
\* the caller starts a new turn, so continueConversation fails with 'No
\* active conversation', also when a turn that was streaming at the reset
\* delivers a SystemInit event afterwards.
C38_ResetHoldsUntilNewTurn ==
  \A t \in TurnIds : \A m \in SystemInits :
    IsStreaming(t) =>
      LET reset == resetConversation(Service)
          after == onMessage(reset, turns[t], m).svc
      IN /\ reset.sessionId = NoSession
         /\ after.sessionId = NoSession
         /\ \A in \in CallInputs :
              LET r == continueConversation(after, resolvedClaudePath, in.t,
                                            in.cb, in.opens, in.error)
              IN /\ r.turn.queries = 0
                 /\ HasPart(r.turn.result.error, Lit("No active conversation"))

\* C39: once a parse of the accumulated text reports a delimited success
\* payload, every later parse of the same turn, the final one included,
\* reports the same payload: text appended later never changes or revokes it.
C39_PayloadStable ==
  [][parsed.has = "refinedInstruction" => parsed' = parsed]_vars

\* text has been appended behind a block whose payload was reported
C39_Witness ==
  /\ Len(parseText) = MaxTextLen + 1
  /\ parsed = Success(<<"a">>)
  /\ SubSeq(parseText, 1, 3) = <<OpenTag, "a", CloseTag>>
  /\ parseText[4] = OpenTag /\ parseText[5] = CloseTag

\* the three shapes of a result: success with a payload, success with a
\* clarification, failure with a reason that is not empty
HasResultShape(result) ==
  \/ result.success /\ result.has = "refinedInstruction" /\ result.error = <<>>
  \/ /\ result.success /\ result.has = "clarification"
     /\ result.text # <<>> /\ result.error = <<>>
  \/ /\ ~result.success /\ result.has = "error" /\ result.text = <<>>
     /\ result.error # <<>>
     /\ \E k \in 1..Len(result.error) : result.error[k] # Lit("")

\* cancel() was called on the streaming turn t
CancelledWhileStreaming(t) == IsStreaming(t) /\ t \in aborted

\* C40: every turn that passes the configuration checks terminates with
\* exactly one result once the stream ends, throws, or delivers an event
\* after cancellation, and the result has one of the three shapes.
C40_TurnTerminatesWithOneResult ==
  /\ \A t \in TurnIds :
       /\ IsStreaming(t) => turns[t].result = NoResult
       /\ IsDone(t) => HasResultShape(turns[t].result)
  /\ \A t \in TurnIds :
       IsStreaming(t) =>
         /\ LET r == onStreamEnd(Service, turns[t])
            IN r.turn.status = "done" /\ HasResultShape(r.turn.result)
         /\ \A e \in ThrownValues :
              LET r == onStreamThrow(Service, turns[t], e)
              IN r.turn.status = "done" /\ HasResultShape(r.turn.result)
         /\ CancelledWhileStreaming(t) =>
              \A m \in Messages :
                LET r == onMessage(Service, turns[t], m)
                IN r.turn.status = "done" /\ HasResultShape(r.turn.result)

====
